---------------------------- MODULE Spec2Model ----------------------------
(***************************************************************************)
(* A model of the schema resolution and validation engine of JSON Atlas    *)
(* (src/src/schemaValidator.ts) and of its caller refreshDiagnostics.      *)
(*                                                                         *)
(* JavaScript strings are TLA+ strings, read character by character with   *)
(* Len and SubSeq.  JSON values are records with a tag `t`.  A path        *)
(* segment is a record tagged "string" or "number".                        *)
(***************************************************************************)
EXTENDS Integers, Sequences, FiniteSets, TLC

VARIABLES
  \* pointer codec (pointerToPath / joinPointer); cJoin is the last call of
  \* joinPointer with one segment: its pointer, the segment, the result
  cPath, cPtr, cOut, cPc, cJoin,
  \* one call of resolveSchemaForPath: info.schema, the path, where the call
  \* stands, the index of the next segment, dereferenceSchema's locals
  \* (currentSchema, currentPointer, visited), the value returned, and the
  \* last call of the per-segment resolver with what it returned
  rRoot, rPath, rPc, rIdx, rSchema, rPointer, rVisited, rResult, rLast,
  \* one call of resolveSchemaSource: the document and its parsed root, the
  \* stored assignments, json.schemas and jsonAtlas.schemas, where the call
  \* stands, the source returned and the return statement reached, the
  \* warnedMessages set and the number of warnings shown
  sDocument, sRoot, sAssignments, sJsonSchemas, sAtlasSchemas, sPc, sSource, sStep,
  sWarned, sShown,
  \* the extension at work on one document: the settings and the stored
  \* assignments, the document's parsed content, the text of the schema file,
  \* the fields of the SchemaValidator, the diagnostics published, the
  \* refreshDiagnostics calls in the order they started, and the order in
  \* which they returned
  settings, content, schemaFile, validatorCache, warnedMessages, schemaInfoByDocument,
  schemaInsightsByDocument, compiles, lastGet, diagnostics, requests, finished,
  \* what has happened so far, in order: a request started, reset was called,
  \* a warning was shown, a request returned (and how validate ended)
  log,
  \* the last call of resolveNavigationTarget, while no request has started
  \* or resumed after it: its path and the target returned
  navigated,
  \* one call of buildInsightsFromErrors: the validator's errors, the insights
  \* returned, where the call stands
  iErrors, iInsights, iPc,
  \* one call of readSchemaUri on an http or https uri: the uri of the current
  \* call of fetchRemoteSchema, its redirectCount, the GET requests issued so
  \* far, the last response, and what settled the promise (a response, a
  \* throw of get, an error of the request) with which error
  fetch,
  \* the dashboard of the insights view: the calls of runWorkspaceScan in the
  \* order they started (each with its cancellation token, where its scan
  \* stands and the entries pushed so far), the scanTokenSource field (the
  \* call that owns it, 0 for undefined), state.dashboard, the number of
  \* files findFiles returns, and whether a workspace folder is open
  scans, scanTokenSource, dashboard, files, workspaceOpen,
  \* the SchemaAssociationStore of one workspace folder: the objects that
  \* hold assignments (a call and the cache may hold the same object), the
  \* cache entry of the folder (the object it holds, 0 for no entry), the
  \* assignments file on disk, and the calls of the store in the order they
  \* started
  heap, cache, assignmentsFile, calls

codecVars == <<cPath, cPtr, cOut, cPc, cJoin>>
resolveVars == <<rRoot, rPath, rPc, rIdx, rSchema, rPointer, rVisited, rResult, rLast>>
insightVars == <<iErrors, iInsights, iPc>>
sourceVars ==
  <<sDocument, sRoot, sAssignments, sJsonSchemas, sAtlasSchemas, sPc, sSource, sStep,
    sWarned, sShown>>
engineVars ==
  <<settings, content, schemaFile, validatorCache, warnedMessages, schemaInfoByDocument,
    schemaInsightsByDocument, compiles, lastGet, diagnostics, requests, finished,
    log, navigated>>
fetchVars == <<fetch>>
scanVars == <<scans, scanTokenSource, dashboard, files, workspaceOpen>>
storeVars == <<heap, cache, assignmentsFile, calls>>
vars ==
  <<codecVars, resolveVars, insightVars, sourceVars, engineVars, fetchVars, scanVars,
    storeVars>>

\* what the steps of one machine leave alone
notCodec == <<resolveVars, insightVars, sourceVars, engineVars, fetchVars, scanVars,
   storeVars>>
notResolve == <<codecVars, insightVars, sourceVars, engineVars, fetchVars, scanVars,
   storeVars>>
notInsight == <<codecVars, resolveVars, sourceVars, engineVars, fetchVars, scanVars,
   storeVars>>
notSource == <<codecVars, resolveVars, insightVars, engineVars, fetchVars, scanVars,
   storeVars>>
notEngine == <<codecVars, resolveVars, insightVars, sourceVars, fetchVars, scanVars,
   storeVars>>
notFetch == <<codecVars, resolveVars, insightVars, sourceVars, engineVars, scanVars,
   storeVars>>
notScan ==
  <<codecVars, resolveVars, insightVars, sourceVars, engineVars, fetchVars, storeVars>>
notStore ==
  <<codecVars, resolveVars, insightVars, sourceVars, engineVars, fetchVars, scanVars>>

(***************************************************************************)
(* Strings                                                                 *)
(***************************************************************************)
CharAt(s, i) == SubSeq(s, i, i)

Digits == {"0", "1", "2", "3", "4", "5", "6", "7", "8", "9"}

DigitVal(c) ==
  CASE c = "0" -> 0 [] c = "1" -> 1 [] c = "2" -> 2 [] c = "3" -> 3
    [] c = "4" -> 4 [] c = "5" -> 5 [] c = "6" -> 6 [] c = "7" -> 7
    [] c = "8" -> 8 [] c = "9" -> 9

DigitChar(d) ==
  CASE d = 0 -> "0" [] d = 1 -> "1" [] d = 2 -> "2" [] d = 3 -> "3"
    [] d = 4 -> "4" [] d = 5 -> "5" [] d = 6 -> "6" [] d = 7 -> "7"
    [] d = 8 -> "8" [] d = 9 -> "9"

StartsWith(s, p) == Len(s) >= Len(p) /\ SubSeq(s, 1, Len(p)) = p

\* String.prototype.split with a one-character separator: "a//b" gives
\* <<"a", "", "b">> and "" gives <<"">>.
RECURSIVE SplitFrom(_, _, _, _)
SplitFrom(s, sep, i, cur) ==
  IF i > Len(s) THEN <<cur>>
  ELSE IF CharAt(s, i) = sep THEN <<cur>> \o SplitFrom(s, sep, i + 1, "")
  ELSE SplitFrom(s, sep, i + 1, cur \o CharAt(s, i))

Split(s, sep) == SplitFrom(s, sep, 1, "")

\* Array.prototype.join
RECURSIVE Join(_, _)
Join(parts, sep) ==
  IF Len(parts) = 0 THEN ""
  ELSE IF Len(parts) = 1 THEN parts[1]
  ELSE parts[1] \o sep \o Join(Tail(parts), sep)

\* String.prototype.replace(/pat/g, rep): leftmost matches, left to right,
\* never rescanning what was substituted.
RECURSIVE ReplaceAllFrom(_, _, _, _)
ReplaceAllFrom(s, pat, rep, i) ==
  IF i > Len(s) THEN ""
  ELSE IF i + Len(pat) - 1 <= Len(s) /\ SubSeq(s, i, i + Len(pat) - 1) = pat
       THEN rep \o ReplaceAllFrom(s, pat, rep, i + Len(pat))
  ELSE CharAt(s, i) \o ReplaceAllFrom(s, pat, rep, i + 1)

ReplaceAll(s, pat, rep) == ReplaceAllFrom(s, pat, rep, 1)

RECURSIVE SeqsUpTo(_, _)
SeqsUpTo(S, n) ==
  IF n = 0 THEN {<<>>}
  ELSE LET shorter == SeqsUpTo(S, n - 1)
       IN shorter \cup {Append(q, x) : q \in {r \in shorter : Len(r) = n - 1}, x \in S}

(***************************************************************************)
(* Number(text) and String(number), for the texts a pointer segment can    *)
(* hold here: an optional sign, decimal digits, an optional fraction.      *)
(* Any other text is NaN.  The empty text is 0.                            *)
(***************************************************************************)
RECURSIVE AllDigits(_, _, _)
AllDigits(s, i, j) == i > j \/ (CharAt(s, i) \in Digits /\ AllDigits(s, i + 1, j))

RECURSIVE AllZeros(_, _, _)
AllZeros(s, i, j) == i > j \/ (CharAt(s, i) = "0" /\ AllZeros(s, i + 1, j))

RECURSIVE DigitsValue(_, _, _, _)
DigitsValue(s, i, j, acc) ==
  IF i > j THEN acc ELSE DigitsValue(s, i + 1, j, acc * 10 + DigitVal(CharAt(s, i)))

RECURSIVE IndexOfFrom(_, _, _)
IndexOfFrom(s, c, i) ==
  IF i > Len(s) THEN 0 ELSE IF CharAt(s, i) = c THEN i ELSE IndexOfFrom(s, c, i + 1)

NaN == [nan |-> TRUE, integer |-> FALSE, val |-> 0]

\* An unsigned decimal literal: digits, digits "." digits?, or "." digits.
UnsignedNumber(s) ==
  LET dot == IndexOfFrom(s, ".", 1)
      intEnd == IF dot = 0 THEN Len(s) ELSE dot - 1
  IN IF Len(s) = 0 THEN NaN
     ELSE IF ~AllDigits(s, 1, intEnd) THEN NaN
     ELSE IF dot # 0 /\ ~AllDigits(s, dot + 1, Len(s)) THEN NaN
     ELSE IF dot # 0 /\ Len(s) = 1 THEN NaN
     ELSE [nan |-> FALSE,
           integer |-> dot = 0 \/ AllZeros(s, dot + 1, Len(s)),
           val |-> DigitsValue(s, 1, intEnd, 0)]

Number(s) ==
  IF Len(s) = 0 THEN [nan |-> FALSE, integer |-> TRUE, val |-> 0]
  ELSE IF CharAt(s, 1) = "-"
       THEN LET u == UnsignedNumber(SubSeq(s, 2, Len(s)))
            IN IF u.nan THEN NaN ELSE [u EXCEPT !.val = 0 - u.val]
  ELSE IF CharAt(s, 1) = "+" THEN UnsignedNumber(SubSeq(s, 2, Len(s)))
  ELSE UnsignedNumber(s)

RECURSIVE NatToString(_)
NatToString(n) ==
  IF n < 10 THEN DigitChar(n) ELSE NatToString(n \div 10) \o DigitChar(n % 10)

\* String(n) for an integer n
IntToString(n) == IF n < 0 THEN "-" \o NatToString(0 - n) ELSE NatToString(n)

(***************************************************************************)
(* Path segments: (string | number)                                        *)
(***************************************************************************)
Str(s) == [kind |-> "string", s |-> s, n |-> 0]
Num(n) == [kind |-> "number", s |-> "", n |-> n]

\* String(segment)
SegmentToString(seg) == IF seg.kind = "number" THEN IntToString(seg.n) ELSE seg.s

(***************************************************************************)
(* Pointer codec                                                           *)
(***************************************************************************)
\* segment.replace(/~[01]/g, m => m === '~1' ? '/' : '~'): one pass
RECURSIVE UnescapeOnePass(_, _)
UnescapeOnePass(s, i) ==
  IF i > Len(s) THEN ""
  ELSE IF CharAt(s, i) = "~" /\ i < Len(s) /\ CharAt(s, i + 1) \in {"0", "1"}
       THEN (IF CharAt(s, i + 1) = "1" THEN "/" ELSE "~") \o UnescapeOnePass(s, i + 2)
  ELSE CharAt(s, i) \o UnescapeOnePass(s, i + 1)

\* Number.isInteger(numeric) && String(numeric) === segment ? numeric : segment
ClassifySegment(segment) ==
  LET numeric == Number(segment)
  IN IF ~numeric.nan /\ numeric.integer /\ IntToString(numeric.val) = segment
     THEN Num(numeric.val) ELSE Str(segment)

pointerToPath(pointer) ==
  IF pointer = "" THEN <<>>
  ELSE LET parts == Tail(Split(pointer, "/"))
       IN [i \in 1..Len(parts) |-> ClassifySegment(UnescapeOnePass(parts[i], 1))]

\* A plausible slip: "/" escaped before "~", so the "~" of "~1" is escaped again.
escapePointerSegmentSwapped(value) == ReplaceAll(ReplaceAll(value, "/", "~1"), "~", "~0")

escapePointerSegment(value) == ReplaceAll(ReplaceAll(value, "~", "~0"), "/", "~1")

pointerToSegments(pointer) ==
  IF pointer = "" \/ pointer = "#" THEN <<>>
  ELSE LET trimmed == IF StartsWith(pointer, "#/") THEN SubSeq(pointer, 3, Len(pointer))
                      ELSE IF StartsWith(pointer, "#") THEN SubSeq(pointer, 2, Len(pointer))
                      ELSE pointer
       IN IF trimmed = "" THEN <<>>
          ELSE LET parts == Split(trimmed, "/")
               IN [i \in 1..Len(parts) |->
                     ReplaceAll(ReplaceAll(parts[i], "~1", "/"), "~0", "~")]

\* A plausible slip: the segments joined as they are, not escaped.
buildPointerFromSegmentsRaw(segments) ==
  IF Len(segments) = 0 THEN "#" ELSE "#/" \o Join(segments, "/")

buildPointerFromSegments(segments) ==
  IF Len(segments) = 0 THEN "#"
  ELSE "#/" \o Join([i \in 1..Len(segments) |-> escapePointerSegment(segments[i])], "/")

\* joinPointer(pointer, ...segments); segments is a sequence of path segments
joinPointer(pointer, segments) ==
  buildPointerFromSegments(
    pointerToSegments(pointer) \o [i \in 1..Len(segments) |-> SegmentToString(segments[i])])

(***************************************************************************)
(* JSON values.  An object keeps its entries in the order Object.keys      *)
(* enumerates them; a key occurs once.                                     *)
(***************************************************************************)
Undefined == [t |-> "undefined", kv |-> <<>>, el |-> <<>>, b |-> FALSE, s |-> "", n |-> 0]
JNull == [t |-> "null", kv |-> <<>>, el |-> <<>>, b |-> FALSE, s |-> "", n |-> 0]
JObj(kv) == [t |-> "object", kv |-> kv, el |-> <<>>, b |-> FALSE, s |-> "", n |-> 0]
JArr(el) == [t |-> "array", kv |-> <<>>, el |-> el, b |-> FALSE, s |-> "", n |-> 0]
JBool(b) == [t |-> "boolean", kv |-> <<>>, el |-> <<>>, b |-> b, s |-> "", n |-> 0]
JStr(s) == [t |-> "string", kv |-> <<>>, el |-> <<>>, b |-> FALSE, s |-> s, n |-> 0]
JNum(n) == [t |-> "number", kv |-> <<>>, el |-> <<>>, b |-> FALSE, s |-> "", n |-> n]
KV(k, v) == [k |-> k, v |-> v]

\* Object.prototype.hasOwnProperty.call(o, key)
HasOwn(o, key) == \E i \in 1..Len(o.kv) : o.kv[i].k = key

\* o[key]
Get(o, key) ==
  IF o.t = "object" /\ HasOwn(o, key)
  THEN o.kv[CHOOSE i \in 1..Len(o.kv) : o.kv[i].k = key].v
  ELSE Undefined

\* Object.keys(o)
ObjectKeys(o) == [i \in 1..Len(o.kv) |-> o.kv[i].k]

isRecord(value) == value.t = "object"
isSchemaLike(value) == value.t = "boolean" \/ isRecord(value)

(***************************************************************************)
(* new RegExp(pattern).test(key) for patterns made of literal characters,  *)
(* ".", a leading "^" and a trailing "$".  A pattern holding "(" is an     *)
(* unterminated group: the constructor throws.                             *)
(***************************************************************************)
RegExpThrows(pattern) == IndexOfFrom(pattern, "(", 1) # 0

RegExpTest(pattern, key) ==
  LET atStart == StartsWith(pattern, "^")
      atEnd == Len(pattern) >= 1 /\ CharAt(pattern, Len(pattern)) = "$"
      from == IF atStart THEN 2 ELSE 1
      to == IF atEnd THEN Len(pattern) - 1 ELSE Len(pattern)
      body == SubSeq(pattern, from, to)
      MatchAt(i) ==
        /\ i + Len(body) - 1 <= Len(key)
        /\ \A j \in 1..Len(body) :
             CharAt(body, j) = "." \/ CharAt(body, j) = CharAt(key, i + j - 1)
  IN \E i \in 1..(Len(key) + 1) :
       /\ atStart => i = 1
       /\ atEnd => i + Len(body) - 1 = Len(key)
       /\ MatchAt(i)

(***************************************************************************)
(* SchemaResolution | undefined                                            *)
(***************************************************************************)
Res(schema, pointer) == [ok |-> TRUE, schema |-> schema, pointer |-> pointer]
None == [ok |-> FALSE, schema |-> Undefined, pointer |-> ""]

RECURSIVE WalkPointer(_, _, _)
WalkPointer(current, segments, i) ==
  IF i > Len(segments) THEN current
  ELSE LET segment == segments[i]
       IN IF current.t = "array"
          THEN LET index == Number(segment)
               IN IF index.nan \/ ~index.integer \/ index.val < 0
                     \/ index.val >= Len(current.el)
                  THEN Undefined
                  ELSE WalkPointer(current.el[index.val + 1], segments, i + 1)
          ELSE IF ~isRecord(current) THEN Undefined
          ELSE IF ~HasOwn(current, segment) THEN Undefined
          ELSE WalkPointer(Get(current, segment), segments, i + 1)

getSchemaAtPointer(root, pointer) ==
  LET segments == pointerToSegments(pointer)
  IN IF Len(segments) = 0 THEN root ELSE WalkPointer(root, segments, 1)

\* A plausible slip: a reference is followed wherever it points.
DerefFollowsAnyRef(currentSchema, visited, root) ==
  /\ isRecord(currentSchema)
  /\ Get(currentSchema, "$ref").t = "string"
  /\ Get(currentSchema, "$ref").s \notin visited
  /\ getSchemaAtPointer(root, Get(currentSchema, "$ref").s) # Undefined

\* A plausible slip: the visited set is not consulted.
DerefFollowsUnguarded(currentSchema, visited, root) ==
  /\ isRecord(currentSchema)
  /\ Get(currentSchema, "$ref").t = "string"
  /\ StartsWith(Get(currentSchema, "$ref").s, "#")
  /\ getSchemaAtPointer(root, Get(currentSchema, "$ref").s) # Undefined

\* dereferenceSchema's loop condition and the three breaks of its body: the
\* loop goes round once more exactly when this holds.
DerefFollows(currentSchema, visited, root) ==
  /\ isRecord(currentSchema)
  /\ Get(currentSchema, "$ref").t = "string"
  /\ StartsWith(Get(currentSchema, "$ref").s, "#")
  /\ Get(currentSchema, "$ref").s \notin visited
  /\ getSchemaAtPointer(root, Get(currentSchema, "$ref").s) # Undefined

\* dereferenceSchema from one round of its loop on
RECURSIVE dereferenceFrom(_, _, _, _)
dereferenceFrom(currentSchema, currentPointer, visited, root) ==
  IF DerefFollows(currentSchema, visited, root)
  THEN LET ref == Get(currentSchema, "$ref").s
       IN dereferenceFrom(getSchemaAtPointer(root, ref), ref, visited \cup {ref}, root)
  ELSE Res(currentSchema, currentPointer)

dereferenceSchema(schema, pointer, root) == dereferenceFrom(schema, pointer, {}, root)

RECURSIVE resolvePropertySchema(_, _, _)
RECURSIVE resolveArraySchema(_, _, _)
RECURSIVE resolveFromCompositeSchemas(_, _, _)

\* A plausible slip: a branch is dereferenced before the segment is looked up
\* in it.
ResolverDereferencing(candidate, candidatePointer, seg) ==
  IF seg.kind = "number"
  THEN resolveArraySchema(dereferenceSchema(candidate, candidatePointer, rRoot).schema,
                          dereferenceSchema(candidate, candidatePointer, rRoot).pointer,
                          seg.n)
  ELSE resolvePropertySchema(dereferenceSchema(candidate, candidatePointer, rRoot).schema,
                             dereferenceSchema(candidate, candidatePointer, rRoot).pointer,
                             seg.s)

\* The resolver callback handed to resolveFromCompositeSchemas: it closes over
\* the key or the index of the segment being resolved.
Resolver(candidate, candidatePointer, seg) ==
  IF seg.kind = "number"
  THEN resolveArraySchema(candidate, candidatePointer, seg.n)
  ELSE resolvePropertySchema(candidate, candidatePointer, seg.s)

\* The first pattern, in key order, that compiles and matches; 0 when none.
RECURSIVE FirstMatchingPattern(_, _, _)
FirstMatchingPattern(patterns, key, i) ==
  IF i > Len(patterns) THEN 0
  ELSE IF ~RegExpThrows(patterns[i]) /\ RegExpTest(patterns[i], key) THEN i
  ELSE FirstMatchingPattern(patterns, key, i + 1)

\* A plausible slip: additionalProperties consulted before patternProperties.
resolvePropertySchemaAdditionalFirst(schema, pointer, key) ==
  IF schema.t = "boolean" THEN Res(schema, pointer)
  ELSE IF ~isRecord(schema) THEN None
  ELSE LET properties == Get(schema, "properties")
           patternProperties == Get(schema, "patternProperties")
           hit == IF isRecord(patternProperties)
                  THEN FirstMatchingPattern(ObjectKeys(patternProperties), key, 1)
                  ELSE 0
       IN IF isRecord(properties) /\ HasOwn(properties, key)
          THEN Res(Get(properties, key),
                   joinPointer(pointer, <<Str("properties"), Str(key)>>))
          ELSE IF isSchemaLike(Get(schema, "additionalProperties"))
          THEN Res(Get(schema, "additionalProperties"),
                   joinPointer(pointer, <<Str("additionalProperties")>>))
          ELSE IF hit # 0
          THEN Res(patternProperties.kv[hit].v,
                   joinPointer(pointer, <<Str("patternProperties"),
                                          Str(patternProperties.kv[hit].k)>>))
          ELSE IF isSchemaLike(Get(schema, "unevaluatedProperties"))
          THEN Res(Get(schema, "unevaluatedProperties"),
                   joinPointer(pointer, <<Str("unevaluatedProperties")>>))
          ELSE resolveFromCompositeSchemas(schema, pointer, Str(key))

resolvePropertySchema(schema, pointer, key) ==
  IF schema.t = "boolean" THEN Res(schema, pointer)
  ELSE IF ~isRecord(schema) THEN None
  ELSE LET properties == Get(schema, "properties")
           patternProperties == Get(schema, "patternProperties")
           hit == IF isRecord(patternProperties)
                  THEN FirstMatchingPattern(ObjectKeys(patternProperties), key, 1)
                  ELSE 0
       IN IF isRecord(properties) /\ HasOwn(properties, key)
          THEN Res(Get(properties, key),
                   joinPointer(pointer, <<Str("properties"), Str(key)>>))
          ELSE IF hit # 0
          THEN Res(patternProperties.kv[hit].v,
                   joinPointer(pointer, <<Str("patternProperties"),
                                          Str(patternProperties.kv[hit].k)>>))
          ELSE IF isSchemaLike(Get(schema, "additionalProperties"))
          THEN Res(Get(schema, "additionalProperties"),
                   joinPointer(pointer, <<Str("additionalProperties")>>))
          ELSE IF isSchemaLike(Get(schema, "unevaluatedProperties"))
          THEN Res(Get(schema, "unevaluatedProperties"),
                   joinPointer(pointer, <<Str("unevaluatedProperties")>>))
          ELSE resolveFromCompositeSchemas(schema, pointer, Str(key))

\* A plausible slip: a boolean schema has no items, like any other value
\* that is not an object.
resolveArraySchemaRecordsOnly(schema, pointer, index) ==
  IF schema.t = "boolean" THEN None
  ELSE IF ~isRecord(schema) THEN None
  ELSE LET prefixItems == Get(schema, "prefixItems")
           items == Get(schema, "items")
       IN IF prefixItems.t = "array" /\ index < Len(prefixItems.el)
          THEN Res(prefixItems.el[index + 1],
                   joinPointer(pointer, <<Str("prefixItems"), Str(IntToString(index))>>))
          ELSE IF items.t = "array" /\ index < Len(items.el)
          THEN Res(items.el[index + 1],
                   joinPointer(pointer, <<Str("items"), Str(IntToString(index))>>))
          ELSE IF items.t # "array" /\ isSchemaLike(items)
          THEN Res(items, joinPointer(pointer, <<Str("items")>>))
          ELSE IF isSchemaLike(Get(schema, "contains"))
          THEN Res(Get(schema, "contains"), joinPointer(pointer, <<Str("contains")>>))
          ELSE IF isSchemaLike(Get(schema, "additionalItems"))
          THEN Res(Get(schema, "additionalItems"),
                   joinPointer(pointer, <<Str("additionalItems")>>))
          ELSE IF isSchemaLike(Get(schema, "unevaluatedItems"))
          THEN Res(Get(schema, "unevaluatedItems"),
                   joinPointer(pointer, <<Str("unevaluatedItems")>>))
          ELSE resolveFromCompositeSchemas(schema, pointer, Num(index))

\* A plausible slip: a tuple `items` consulted before prefixItems.
resolveArraySchemaItemsFirst(schema, pointer, index) ==
  IF schema.t = "boolean" THEN Res(schema, pointer)
  ELSE IF ~isRecord(schema) THEN None
  ELSE LET prefixItems == Get(schema, "prefixItems")
           items == Get(schema, "items")
       IN IF items.t = "array" /\ index < Len(items.el)
          THEN Res(items.el[index + 1],
                   joinPointer(pointer, <<Str("items"), Str(IntToString(index))>>))
          ELSE IF prefixItems.t = "array" /\ index < Len(prefixItems.el)
          THEN Res(prefixItems.el[index + 1],
                   joinPointer(pointer, <<Str("prefixItems"), Str(IntToString(index))>>))
          ELSE IF items.t # "array" /\ isSchemaLike(items)
          THEN Res(items, joinPointer(pointer, <<Str("items")>>))
          ELSE IF isSchemaLike(Get(schema, "contains"))
          THEN Res(Get(schema, "contains"), joinPointer(pointer, <<Str("contains")>>))
          ELSE IF isSchemaLike(Get(schema, "additionalItems"))
          THEN Res(Get(schema, "additionalItems"),
                   joinPointer(pointer, <<Str("additionalItems")>>))
          ELSE IF isSchemaLike(Get(schema, "unevaluatedItems"))
          THEN Res(Get(schema, "unevaluatedItems"),
                   joinPointer(pointer, <<Str("unevaluatedItems")>>))
          ELSE resolveFromCompositeSchemas(schema, pointer, Num(index))

resolveArraySchema(schema, pointer, index) ==
  IF schema.t = "boolean" THEN Res(schema, pointer)
  ELSE IF ~isRecord(schema) THEN None
  ELSE LET prefixItems == Get(schema, "prefixItems")
           items == Get(schema, "items")
       IN IF prefixItems.t = "array" /\ index < Len(prefixItems.el)
          THEN Res(prefixItems.el[index + 1],
                   joinPointer(pointer, <<Str("prefixItems"), Str(IntToString(index))>>))
          ELSE IF items.t = "array" /\ index < Len(items.el)
          THEN Res(items.el[index + 1],
                   joinPointer(pointer, <<Str("items"), Str(IntToString(index))>>))
          ELSE IF items.t # "array" /\ isSchemaLike(items)
          THEN Res(items, joinPointer(pointer, <<Str("items")>>))
          ELSE IF isSchemaLike(Get(schema, "contains"))
          THEN Res(Get(schema, "contains"), joinPointer(pointer, <<Str("contains")>>))
          ELSE IF isSchemaLike(Get(schema, "additionalItems"))
          THEN Res(Get(schema, "additionalItems"),
                   joinPointer(pointer, <<Str("additionalItems")>>))
          ELSE IF isSchemaLike(Get(schema, "unevaluatedItems"))
          THEN Res(Get(schema, "unevaluatedItems"),
                   joinPointer(pointer, <<Str("unevaluatedItems")>>))
          ELSE resolveFromCompositeSchemas(schema, pointer, Num(index))

\* The loops over one keyword's block, from index `index` (0-based) on.
RECURSIVE ResolveInBlock(_, _, _, _, _)
ResolveInBlock(block, pointer, keyword, seg, index) ==
  IF index >= Len(block.el) THEN None
  ELSE LET childPointer == joinPointer(pointer, <<Str(keyword), Str(IntToString(index))>>)
           result == Resolver(block.el[index + 1], childPointer, seg)
       IN IF result.ok THEN result
          ELSE ResolveInBlock(block, pointer, keyword, seg, index + 1)

\* for (const keyword of keywords), from the keyword at position i on
RECURSIVE ResolveInKeywords(_, _, _, _, _)
ResolveInKeywords(schema, pointer, keywords, seg, i) ==
  IF i > Len(keywords) THEN None
  ELSE LET block == Get(schema, keywords[i])
           result == IF block.t = "array"
                     THEN ResolveInBlock(block, pointer, keywords[i], seg, 0)
                     ELSE None
       IN IF result.ok THEN result
          ELSE ResolveInKeywords(schema, pointer, keywords, seg, i + 1)

ResolveInConditional(schema, pointer, keyword, seg) ==
  IF isSchemaLike(Get(schema, keyword))
  THEN Resolver(Get(schema, keyword), joinPointer(pointer, <<Str(keyword)>>), seg)
  ELSE None

\* A plausible slip: anyOf listed before allOf.
resolveFromCompositeSchemasAnyOfFirst(schema, pointer, seg) ==
  LET inBlocks == ResolveInKeywords(schema, pointer, <<"anyOf", "allOf", "oneOf">>, seg, 1)
      inThen == ResolveInConditional(schema, pointer, "then", seg)
      inElse == ResolveInConditional(schema, pointer, "else", seg)
  IN IF inBlocks.ok THEN inBlocks
     ELSE IF inThen.ok THEN inThen
     ELSE IF inElse.ok THEN inElse
     ELSE None

resolveFromCompositeSchemas(schema, pointer, seg) ==
  LET inBlocks == ResolveInKeywords(schema, pointer, <<"allOf", "anyOf", "oneOf">>, seg, 1)
      inThen == ResolveInConditional(schema, pointer, "then", seg)
      inElse == ResolveInConditional(schema, pointer, "else", seg)
  IN IF inBlocks.ok THEN inBlocks
     ELSE IF inThen.ok THEN inThen
     ELSE IF inElse.ok THEN inElse
     ELSE None

\* the for loop of resolveSchemaForPath from segment idx on
RECURSIVE resolveFromSegment(_, _, _, _)
resolveFromSegment(state, path, idx, root) ==
  IF idx > Len(path) THEN state
  ELSE LET segment == path[idx]
           next == IF segment.kind = "number"
                   THEN resolveArraySchema(state.schema, state.pointer, segment.n)
                   ELSE resolvePropertySchema(state.schema, state.pointer,
                                              SegmentToString(segment))
       IN IF ~next.ok THEN None
          ELSE resolveFromSegment(dereferenceSchema(next.schema, next.pointer, root),
                                  path, idx + 1, root)

\* resolveSchemaForPath(info, path) as one call; root is info.schema
resolveSchemaForPath(root, path) ==
  resolveFromSegment(dereferenceSchema(root, "#", root), path, 1, root)

(***************************************************************************)
(* Schemas drawn for the resolver.  Every leaf has its own title, so that  *)
(* two different subschemas are never equal.                               *)
(***************************************************************************)
Leaf(name) == JObj(<<KV("title", JStr(name))>>)
Opt(present, entries) == IF present THEN entries ELSE <<>>

Inner ==
  JObj(<<KV("properties", JObj(<<KV("y", Leaf("inner y")),
                                 KV("a/~b", Leaf("inner a/~b"))>>)),
         KV("items", JArr(<<Leaf("inner 0"), Leaf("inner 1")>>))>>)

ObjectComposite(c) ==
  IF c = 1
  THEN <<KV("allOf", JArr(<<JObj(<<KV("properties", JObj(<<KV("a/~b", Inner)>>))>>),
                            JObj(<<KV("properties", JObj(<<KV("y", Leaf("allOf 1 y"))>>))>>)>>)),
         KV("anyOf", JArr(<<JObj(<<KV("properties", JObj(<<KV("y", Leaf("anyOf 0 y"))>>))>>),
                            JObj(<<KV("items", Leaf("anyOf 1 items"))>>)>>))>>
  ELSE IF c = 2
  THEN <<KV("oneOf", JArr(<<JObj(<<KV("allOf", JArr(<<Leaf("no keyword"),
                              JObj(<<KV("patternProperties",
                                        JObj(<<KV("^y", Leaf("nested ^y"))>>))>>)>>))>>),
                            JObj(<<KV("properties", JObj(<<KV("y", Leaf("oneOf 1 y"))>>))>>)>>)),
         KV("then", JObj(<<KV("properties", JObj(<<KV("a/~b", Leaf("then a/~b"))>>))>>)),
         KV("else", JObj(<<KV("additionalProperties", Inner),
                           KV("prefixItems", JArr(<<Leaf("else 0")>>))>>))>>
  ELSE IF c = 3
  THEN <<KV("anyOf", JArr(<<Leaf("no keyword"), JBool(TRUE)>>)),
         KV("else", JObj(<<KV("properties", JObj(<<KV("y", Leaf("else y"))>>))>>))>>
  ELSE <<>>

ObjectSchema(p, pp, ap, up, c) ==
  JObj(
    Opt(p = 1, <<KV("properties", JObj(<<KV("a/~b", Inner), KV("x", Leaf("x"))>>))>>)
    \o Opt(pp = 1, <<KV("patternProperties",
                        JObj(<<KV("^a", Leaf("^a")), KV("/~", Inner)>>))>>)
    \o Opt(pp = 2, <<KV("patternProperties",
                        JObj(<<KV("(", Leaf("(")), KV("y$", Inner),
                               KV(".", Leaf("."))>>))>>)
    \o Opt(ap = 1, <<KV("additionalProperties", Leaf("additionalProperties"))>>)
    \o Opt(ap = 2, <<KV("additionalProperties", JBool(FALSE))>>)
    \o Opt(up = 1, <<KV("unevaluatedProperties", Leaf("unevaluatedProperties"))>>)
    \o ObjectComposite(c))

ObjectSchemas ==
  {ObjectSchema(p, pp, ap, up, c) :
     p \in 0..1, pp \in 0..2, ap \in 0..2, up \in 0..1, c \in 0..3}

ArrayComposite(c) ==
  IF c = 1
  THEN <<KV("allOf", JArr(<<JObj(<<KV("items", JArr(<<Leaf("allOf 0 items 0")>>))>>),
                            JObj(<<KV("prefixItems", JArr(<<Leaf("allOf 1 0"),
                                      Inner, Leaf("allOf 1 2")>>))>>)>>)),
         KV("oneOf", JArr(<<JObj(<<KV("contains", Leaf("oneOf 0 contains"))>>)>>))>>
  ELSE IF c = 2
  THEN <<KV("then", JObj(<<KV("items", JArr(<<Inner>>))>>)),
         KV("else", JObj(<<KV("unevaluatedItems", Leaf("else unevaluatedItems"))>>))>>
  ELSE <<>>

ArraySchema(pre, it, co, ad, un, c) ==
  JObj(
    Opt(pre = 1, <<KV("prefixItems", JArr(<<Inner>>))>>)
    \o Opt(it = 1, <<KV("items", JArr(<<Leaf("items 0"), Inner>>))>>)
    \o Opt(it = 2, <<KV("items", Leaf("items"))>>)
    \o Opt(co = 1, <<KV("contains", Leaf("contains"))>>)
    \o Opt(ad = 1, <<KV("additionalItems", Inner)>>)
    \o Opt(un = 1, <<KV("unevaluatedItems", JBool(TRUE))>>)
    \o ArrayComposite(c))

ArraySchemas ==
  {ArraySchema(pre, it, co, ad, un, c) :
     pre \in 0..1, it \in 0..2, co \in 0..1, ad \in 0..1, un \in 0..1, c \in 0..2}

Ref(pointer) == JObj(<<KV("$ref", JStr(pointer))>>)

\* {"$ref": "#/a", "a": {"$ref": "#/a"}}
SelfCycle == JObj(<<KV("$ref", JStr("#/a")), KV("a", Ref("#/a"))>>)

TwoCycle ==
  JObj(<<KV("properties", JObj(<<KV("y", Ref("#/definitions/A"))>>)),
         KV("definitions", JObj(<<KV("A", Ref("#/definitions/B")),
                                  KV("B", Ref("#/definitions/A"))>>))>>)

RefChain ==
  JObj(<<KV("properties", JObj(<<KV("y", Ref("#/definitions/A"))>>)),
         KV("definitions", JObj(<<KV("A", Ref("#/definitions/B")),
                                  KV("B", Inner)>>))>>)

ExternalRef ==
  JObj(<<KV("properties",
            JObj(<<KV("y", JObj(<<KV("$ref", JStr("http://example.com/s.json")),
                                  KV("items", Leaf("beside external"))>>))>>))>>)

MissingRef ==
  JObj(<<KV("items", JObj(<<KV("$ref", JStr("#/definitions/none")),
                            KV("properties", JObj(<<KV("y", Leaf("beside missing"))>>))>>))>>)

\* a reference to another document whose text is a path of this one
RelativeRef ==
  JObj(<<KV("properties", JObj(<<KV("y", Ref("definitions/A"))>>)),
         KV("definitions", JObj(<<KV("A", Inner)>>))>>)

RootRef ==
  JObj(<<KV("$ref", JStr("#")),
         KV("properties", JObj(<<KV("y", Leaf("root y"))>>))>>)

\* then and else are references and nothing else
RefConditional ==
  JObj(<<KV("then", Ref("#/definitions/Base")),
         KV("else", Ref("#/definitions/List")),
         KV("definitions",
            JObj(<<KV("Base", JObj(<<KV("properties",
                                        JObj(<<KV("y", Leaf("base y"))>>))>>)),
                   KV("List", JObj(<<KV("items", Leaf("list items"))>>))>>))>>)

RefBranch ==
  JObj(<<KV("allOf", JArr(<<Ref("#/definitions/Base")>>)),
         KV("definitions",
            JObj(<<KV("Base", JObj(<<KV("properties",
                                        JObj(<<KV("y", Leaf("base y"))>>))>>))>>))>>)

EscapedRef ==
  JObj(<<KV("items", Ref("#/definitions/a~1~0b")),
         KV("definitions", JObj(<<KV("a/~b", Inner)>>))>>)

ArrayRef ==
  JObj(<<KV("properties", JObj(<<KV("y", Ref("#/items/1"))>>)),
         KV("items", JArr(<<Leaf("items 0"), Inner>>))>>)

BooleanLeaves ==
  JObj(<<KV("properties", JObj(<<KV("y", JBool(TRUE)), KV("a/~b", JBool(FALSE))>>))>>)

RefSchemas ==
  {SelfCycle, TwoCycle, RefChain, ExternalRef, MissingRef, RelativeRef, RootRef, RefBranch,
   RefConditional,
   EscapedRef, ArrayRef, BooleanLeaves, JBool(TRUE), JArr(<<Inner>>)}

Schemas == ObjectSchemas \cup ArraySchemas \cup RefSchemas

MaxPathLen == 2

PathSegments == {Str("y"), Str("a/~b"), Num(0), Num(1), Num(2)}

NoCall == [from |-> None, seg |-> Str(""), next |-> None, called |-> FALSE]

(***************************************************************************)
(* JSON.stringify(value) without indentation.                              *)
(***************************************************************************)
\* the quoted form of a string: the quote and the backslash are escaped
RECURSIVE QuoteFrom(_, _)
QuoteFrom(s, i) ==
  IF i > Len(s) THEN ""
  ELSE LET c == CharAt(s, i)
       IN (IF c = "\"" \/ c = "\\" THEN "\\" \o c ELSE c) \o QuoteFrom(s, i + 1)

Quote(s) == "\"" \o QuoteFrom(s, 1) \o "\""

RECURSIVE JSONStringify(_)
JSONStringify(v) ==
  CASE v.t = "string" -> Quote(v.s)
    [] v.t = "number" -> IntToString(v.n)
    [] v.t = "boolean" -> (IF v.b THEN "true" ELSE "false")
    [] v.t = "null" -> "null"
    [] v.t = "array" ->
         "[" \o Join([i \in 1..Len(v.el) |->
                        IF v.el[i].t = "undefined" THEN "null"
                        ELSE JSONStringify(v.el[i])], ",") \o "]"
    [] v.t = "object" ->
         "{" \o Join([i \in 1..Len(v.kv) |->
                        Quote(v.kv[i].k) \o ":" \o JSONStringify(v.kv[i].v)], ",") \o "}"

(***************************************************************************)
(* Validation errors as Ajv reports them, and the insights built of them.  *)
(***************************************************************************)
ErrorObject(instancePath, keyword, params, message) ==
  [instancePath |-> instancePath, keyword |-> keyword, params |-> params,
   message |-> message]

RequiredError(instancePath, property) ==
  ErrorObject(instancePath, "required",
              JObj(<<KV("missingProperty", JStr(property))>>),
              "must have required property '" \o property \o "'")

EnumError(instancePath, allowed) ==
  ErrorObject(instancePath, "enum", JObj(<<KV("allowedValues", JArr(allowed))>>),
              "must be equal to one of the allowed values")

TypeError(instancePath, type) ==
  ErrorObject(instancePath, "type", JObj(<<KV("type", JStr(type))>>),
              "must be " \o type)

AdditionalPropertiesError(instancePath, property) ==
  ErrorObject(instancePath, "additionalProperties",
              JObj(<<KV("additionalProperty", JStr(property))>>),
              "must NOT have additional properties")

\* A plausible slip: the values joined without the space.
stringifyArrayCompact(values) ==
  IF values.t = "array"
  THEN Join([i \in 1..Len(values.el) |-> JSONStringify(values.el[i])], ",")
  ELSE ""

stringifyArray(values) ==
  IF values.t = "array"
  THEN Join([i \in 1..Len(values.el) |-> JSONStringify(values.el[i])], ", ")
  ELSE ""

formatErrorMessage(error) ==
  IF error.keyword = "required" /\ Get(error.params, "missingProperty").t = "string"
  THEN "Missing required property: " \o Get(error.params, "missingProperty").s
  ELSE IF error.keyword = "enum"
  THEN "Value must be one of: " \o stringifyArray(Get(error.params, "allowedValues"))
  ELSE error.message

SchemaInsight(error) ==
  LET pointer == error.instancePath
      message == formatErrorMessage(error)
      keyword == error.keyword
  IN [id |-> pointer \o "::" \o keyword \o "::" \o message,
      message |-> message,
      pointer |-> pointer,
      path |-> pointerToPath(pointer),
      severity |-> IF keyword = "required" \/ keyword = "deprecated"
                   THEN "warning" ELSE "error",
      keyword |-> keyword]

buildInsightsFromErrors(errors) ==
  [k \in 1..Len(errors) |-> SchemaInsight(errors[k])]

(***************************************************************************)
(* Schema source selection.  A string that may be undefined is a record    *)
(* with a flag; a document carries what the editor tells about it: its     *)
(* uri, scheme and fsPath, the uri and fsPath of its workspace folder (""  *)
(* when it is in none) and what asRelativePath gives for it.               *)
(***************************************************************************)
NoString == [has |-> FALSE, s |-> ""]
Some(s) == [has |-> TRUE, s |-> s]
Truthy(x) == x.has /\ x.s # ""

EndsWith(s, p) == Len(s) >= Len(p) /\ SubSeq(s, Len(s) - Len(p) + 1, Len(s)) = p

CharsOf(s) == {CharAt(s, i) : i \in 1..Len(s)}
Alpha == CharsOf("abcdefghijklmnopqrstuvwxyzABCDEFGHIJKLMNOPQRSTUVWXYZ")
Whitespace == {" ", "\t", "\n"}

\* String.prototype.trim
RECURSIVE TrimStart(_)
TrimStart(s) ==
  IF Len(s) > 0 /\ CharAt(s, 1) \in Whitespace THEN TrimStart(SubSeq(s, 2, Len(s))) ELSE s

RECURSIVE TrimEnd(_)
TrimEnd(s) ==
  IF Len(s) > 0 /\ CharAt(s, Len(s)) \in Whitespace
  THEN TrimEnd(SubSeq(s, 1, Len(s) - 1)) ELSE s

Trim(s) == TrimEnd(TrimStart(s))

\* split(/[\\/]+/).filter(Boolean): the non-empty runs between separators
RECURSIVE PathPartsFrom(_, _, _)
PathPartsFrom(s, i, cur) ==
  IF i > Len(s) THEN (IF cur = "" THEN <<>> ELSE <<cur>>)
  ELSE IF CharAt(s, i) \in {"/", "\\"}
  THEN (IF cur = "" THEN <<>> ELSE <<cur>>) \o PathPartsFrom(s, i + 1, "")
  ELSE PathPartsFrom(s, i + 1, cur \o CharAt(s, i))

PathParts(s) == PathPartsFrom(s, 1, "")

\* /^[a-zA-Z][a-zA-Z0-9+.+-]*:\/\//.test(value): the run of scheme characters
\* at the start is followed by "://"
RECURSIVE SchemeRun(_, _)
SchemeRun(value, i) ==
  IF i <= Len(value) /\ CharAt(value, i) \in Alpha \cup Digits \cup {"+", ".", "-"}
  THEN SchemeRun(value, i + 1) ELSE i - 1

isAbsoluteUri(value) ==
  /\ Len(value) >= 1
  /\ CharAt(value, 1) \in Alpha
  /\ LET run == SchemeRun(value, 2)
     IN run + 3 <= Len(value) /\ SubSeq(value, run + 1, run + 3) = "://"

\* path.isAbsolute on a POSIX host
isAbsolutePath(value) == StartsWith(value, "/")

\* trimmed.replace(/^\.\/+/, '')
RECURSIVE DropSlashes(_)
DropSlashes(s) == IF StartsWith(s, "/") THEN DropSlashes(SubSeq(s, 2, Len(s))) ELSE s

DropDotSlash(s) == IF StartsWith(s, "./") THEN DropSlashes(SubSeq(s, 2, Len(s))) ELSE s

\* vscode.Uri.file(path).toString() for a POSIX path
UriFile(fsPath) == "file://" \o fsPath

\* vscode.Uri.joinPath(base, ...segments).toString()
UriJoinPath(base, segments) ==
  IF Len(segments) = 0 THEN base ELSE base \o "/" \o Join(segments, "/")

\* path.dirname
RECURSIVE LastSlash(_, _)
LastSlash(s, i) == IF i = 0 THEN 0 ELSE IF CharAt(s, i) = "/" THEN i ELSE LastSlash(s, i - 1)

Dirname(fsPath) ==
  LET at == LastSlash(fsPath, Len(fsPath))
  IN IF at = 0 THEN "." ELSE IF at = 1 THEN "/" ELSE SubSeq(fsPath, 1, at - 1)

\* path.join(dir, relative) of an absolute dir: the "." parts and the empty
\* parts go away
PathJoin(dir, relative) ==
  LET parts == PathParts(dir \o "/" \o relative)
      kept == SelectSeq(parts, LAMBDA part : part # ".")
  IN "/" \o Join(kept, "/")

NoUri == [ok |-> FALSE, uri |-> ""]
Uri(text) == [ok |-> TRUE, uri |-> text]

\* Uri.parse accepts every text that isAbsoluteUri accepts, so the first
\* branch always returns.
resolveReferenceUri(document, reference) ==
  LET trimmed == Trim(reference)
  IN IF trimmed = "" THEN NoUri
     ELSE IF isAbsoluteUri(trimmed) THEN Uri(trimmed)
     ELSE IF isAbsolutePath(trimmed) THEN Uri(UriFile(trimmed))
     ELSE IF document.folder # ""
     THEN Uri(UriJoinPath(document.folder, PathParts(DropDotSlash(trimmed))))
     ELSE IF document.scheme = "file"
     THEN Uri(UriFile(PathJoin(Dirname(document.fsPath), trimmed)))
     ELSE NoUri

\* The first property of an object root whose key is $schema and whose
\* value is a string.
RECURSIVE FirstSchemaProperty(_, _)
FirstSchemaProperty(kv, i) ==
  IF i > Len(kv) THEN NoString
  ELSE IF kv[i].k = "$schema" /\ kv[i].v.t = "string" THEN Some(kv[i].v.s)
  ELSE FirstSchemaProperty(kv, i + 1)

getEmbeddedSchemaReference(root) ==
  IF root.t # "object" THEN NoString ELSE FirstSchemaProperty(root.kv, 1)

\* SchemaAssociationStore.buildKey
buildKey(document) ==
  IF document.scheme # "file" THEN document.uri
  ELSE SubSeq(document.fsPath, Len(document.folderPath) + 2, Len(document.fsPath))

\* SchemaAssociationStore.getSchemaReference over the assignments read for
\* the document's folder
getSchemaReference(document, assignments) ==
  IF document.folder = "" THEN NoString
  ELSE IF buildKey(document) \in DOMAIN assignments
  THEN Some(assignments[buildKey(document)])
  ELSE NoString

\* minimatch(path, pattern, {dot: true}) for a pattern that is either
\* literal or "*" followed by literal text within one path segment
minimatch(path, pattern) ==
  IF StartsWith(pattern, "*")
  THEN /\ IndexOfFrom(path, "/", 1) = 0
       /\ EndsWith(path, SubSeq(pattern, 2, Len(pattern)))
  ELSE path = pattern

getDocumentRelativePath(document) ==
  IF document.relative # "" /\ document.relative # document.uri
  THEN Some(document.relative)
  ELSE IF document.scheme = "file" THEN Some(document.fsPath)
  ELSE NoString

normalizeFileMatches(value) ==
  IF value.t = "string" THEN <<value.s>>
  ELSE IF value.t = "array"
  THEN LET strings == SelectSeq(value.el, LAMBDA entry : entry.t = "string")
       IN [i \in 1..Len(strings) |-> strings[i].s]
  ELSE <<>>

matchesAnyPattern(document, patterns) ==
  IF Len(patterns) = 0 THEN TRUE
  ELSE LET relativePath == getDocumentRelativePath(document)
           fsPath == IF document.scheme = "file" THEN document.fsPath ELSE document.uri
       IN \E i \in 1..Len(patterns) :
            /\ patterns[i] # ""
            /\ \/ Truthy(relativePath) /\ minimatch(relativePath.s, patterns[i])
               \/ minimatch(fsPath, patterns[i])

\* JSON.stringify(value, null, 2)
RECURSIVE JSONStringifyIndented(_, _)
JSONStringifyIndented(v, indent) ==
  LET inner == indent \o "  "
  IN CASE v.t = "array" /\ Len(v.el) > 0 ->
            "[\n" \o Join([i \in 1..Len(v.el) |->
                             inner \o (IF v.el[i].t = "undefined" THEN "null"
                                       ELSE JSONStringifyIndented(v.el[i], inner))],
                           ",\n")
                  \o "\n" \o indent \o "]"
       [] v.t = "object" /\ Len(v.kv) > 0 ->
            "{\n" \o Join([i \in 1..Len(v.kv) |->
                             inner \o Quote(v.kv[i].k) \o ": "
                               \o JSONStringifyIndented(v.kv[i].v, inner)],
                           ",\n")
                  \o "\n" \o indent \o "}"
       [] OTHER -> JSONStringify(v)

NoSource ==
  [ok |-> FALSE, kind |-> "", uri |-> "", cacheKey |-> "", schema |-> Undefined,
   text |-> "", virtualUri |-> ""]
UriSource(uri, cacheKey) ==
  [ok |-> TRUE, kind |-> "uri", uri |-> uri, cacheKey |-> cacheKey,
   schema |-> Undefined, text |-> "", virtualUri |-> ""]
InlineSource(cacheKey, schema, text, virtualUri) ==
  [ok |-> TRUE, kind |-> "inline", uri |-> "", cacheKey |-> cacheKey,
   schema |-> schema, text |-> text, virtualUri |-> virtualUri]

\* The source one json.schemas mapping gives, NoSource when the loop goes on.
\* The virtual uri of an inline schema is kept as the text it is parsed from.
JsonMappingSource(document, mapping) ==
  LET fileMatches == normalizeFileMatches(mapping.fileMatch)
      url == IF mapping.url.has THEN Trim(mapping.url.s) ELSE ""
  IN IF Len(fileMatches) > 0 /\ ~matchesAnyPattern(document, fileMatches) THEN NoSource
     ELSE IF mapping.schema.t # "undefined"
     THEN LET text == JSONStringifyIndented(mapping.schema, "")
              named == IF Join(fileMatches, "|") # "" THEN Join(fileMatches, "|")
                       ELSE document.uri
              baseId == IF url # "" THEN url ELSE "json-schema:" \o named
          IN InlineSource("inline:" \o baseId, mapping.schema, text, baseId)
     ELSE IF url # ""
     THEN LET uri == resolveReferenceUri(document, url)
          IN IF uri.ok THEN UriSource(uri.uri, uri.uri) ELSE NoSource
     ELSE NoSource

RECURSIVE FirstJsonMapping(_, _, _)
FirstJsonMapping(document, mappings, i) ==
  IF i > Len(mappings) THEN NoSource
  ELSE LET source == JsonMappingSource(document, mappings[i])
       IN IF source.ok THEN source ELSE FirstJsonMapping(document, mappings, i + 1)

resolveFromJsonSchemasConfig(document, mappings) == FirstJsonMapping(document, mappings, 1)

AtlasMappingSource(document, mapping) ==
  IF ~mapping.pattern.has \/ ~mapping.schema.has THEN NoSource
  ELSE LET relativePath == getDocumentRelativePath(document)
           matchesRelative == Truthy(relativePath)
                                /\ minimatch(relativePath.s, mapping.pattern.s)
           matchesAbsolute == document.scheme = "file"
                                /\ minimatch(document.fsPath, mapping.pattern.s)
           uri == resolveReferenceUri(document, mapping.schema.s)
       IN IF (matchesRelative \/ matchesAbsolute) /\ uri.ok
          THEN UriSource(uri.uri, "atlas:" \o mapping.pattern.s \o ":" \o uri.uri)
          ELSE NoSource

RECURSIVE FirstAtlasMapping(_, _, _)
FirstAtlasMapping(document, mappings, i) ==
  IF i > Len(mappings) THEN NoSource
  ELSE LET source == AtlasMappingSource(document, mappings[i])
       IN IF source.ok THEN source ELSE FirstAtlasMapping(document, mappings, i + 1)

resolveFromAtlasConfig(document, mappings) == FirstAtlasMapping(document, mappings, 1)

NoSchemaWarning(document) ==
  "JSON Atlas could not find a schema for " \o document.fsPath
    \o ". Use \"JSON Atlas: Associate Schema\" to pick one."

\* resolveSchemaSource up to the await of the association store: the source
\* returned there, NoSource when the call goes on to the store.
resolveSchemaSourceEmbedded(document, root) ==
  LET embedded == getEmbeddedSchemaReference(root)
      uri == resolveReferenceUri(document, embedded.s)
  IN IF Truthy(embedded) /\ uri.ok THEN UriSource(uri.uri, uri.uri) ELSE NoSource

\* A plausible slip: the configured mappings consulted before the assignment.
resolveSchemaSourceConfigFirst(document, assigned, jsonSchemas, atlasSchemas) ==
  LET uri == resolveReferenceUri(document, assigned.s)
      jsonConfigSource == resolveFromJsonSchemasConfig(document, jsonSchemas)
      atlasSource == resolveFromAtlasConfig(document, atlasSchemas)
  IN IF jsonConfigSource.ok
     THEN [source |-> jsonConfigSource, step |-> "json.schemas", warn |-> NoString]
     ELSE IF Truthy(assigned) /\ uri.ok
     THEN [source |-> UriSource(uri.uri, "assignment:" \o document.uri),
           step |-> "assignment", warn |-> NoString]
     ELSE IF atlasSource.ok
     THEN [source |-> atlasSource, step |-> "jsonAtlas.schemas", warn |-> NoString]
     ELSE [source |-> NoSource, step |-> "none",
           warn |-> Some(NoSchemaWarning(document))]

\* resolveSchemaSource from the answer of the association store on: the
\* source returned, the return statement reached, and the message handed to
\* warnOnce if any.
resolveSchemaSourceAssigned(document, assigned, jsonSchemas, atlasSchemas) ==
  LET uri == resolveReferenceUri(document, assigned.s)
      jsonConfigSource == resolveFromJsonSchemasConfig(document, jsonSchemas)
      atlasSource == resolveFromAtlasConfig(document, atlasSchemas)
  IN IF Truthy(assigned) /\ uri.ok
     THEN [source |-> UriSource(uri.uri, "assignment:" \o document.uri),
           step |-> "assignment", warn |-> NoString]
     ELSE IF jsonConfigSource.ok
     THEN [source |-> jsonConfigSource, step |-> "json.schemas", warn |-> NoString]
     ELSE IF atlasSource.ok
     THEN [source |-> atlasSource, step |-> "jsonAtlas.schemas", warn |-> NoString]
     ELSE [source |-> NoSource, step |-> "none",
           warn |-> Some(NoSchemaWarning(document))]

(***************************************************************************)
(* validate and what it calls.  A Map is a function on the set of its      *)
(* keys.  The fields of the SchemaValidator travel in one record e: cache  *)
(* (validatorCache), warned (warnedMessages), info (schemaInfoByDocument),  *)
(* insights (schemaInsightsByDocument), compiles (the calls of ajv.compile  *)
(* so far), last (what the last call of getValidator saw and did) and log  *)
(* (what has happened so far).                                             *)
(***************************************************************************)
Put(map, key, value) ==
  [k \in DOMAIN map \cup {key} |-> IF k = key THEN value ELSE map[k]]
Remove(map, key) == [k \in DOMAIN map \ {key} |-> map[k]]

\* JSON.parse over the texts whose value is known: a text is parsed to the
\* value that is written as that text, any other text throws
InlineSchema == JObj(<<KV("enum", JArr(<<JStr("a"), JStr("b")>>))>>)
RequiredSchema == JObj(<<KV("required", JArr(<<JStr("name")>>))>>)
InvalidSchema == JObj(<<KV("type", JStr("strin"))>>)
ParsedValues == {RequiredSchema, InlineSchema, InvalidSchema, JBool(TRUE)}

Written(value) == {JSONStringify(value), JSONStringifyIndented(value, "")}

JSONParse(text) ==
  IF \E value \in ParsedValues : text \in Written(value)
  THEN [ok |-> TRUE, value |-> CHOOSE value \in ParsedValues : text \in Written(value)]
  ELSE [ok |-> FALSE, value |-> Undefined]

\* ajv.compile throws on a schema its meta-schema rejects
AjvCompiles(schema) ==
  ~(schema.t = "object" /\ HasOwn(schema, "type")
      /\ Get(schema, "type") \notin {JStr(ty) : ty \in {"object", "array", "string",
                                      "number", "integer", "boolean", "null"}})

\* validator(data) for the keywords `required` and `enum` at the root
AjvValidate(schema, data) ==
  LET required == Get(schema, "required")
      missing == IF required.t = "array" /\ data.t = "object"
                 THEN SelectSeq(required.el, LAMBDA name : ~HasOwn(data, name.s))
                 ELSE <<>>
      allowed == Get(schema, "enum")
  IN [k \in 1..Len(missing) |-> RequiredError("", missing[k].s)]
       \o (IF allowed.t = "array" /\ \A k \in 1..Len(allowed.el) : allowed.el[k] # data
           THEN <<EnumError("", allowed.el)>> ELSE <<>>)

NoValidator == [id |-> 0, schema |-> Undefined]
NoGet ==
  [called |-> FALSE, key |-> "", fingerprint |-> "", schema |-> Undefined,
   before |-> <<>>, after |-> <<>>, compilesBefore |-> 0, compilesAfter |-> 0,
   returned |-> NoValidator]

Event(op, i, text) == [op |-> op, i |-> i, text |-> text]

\* A plausible slip: the message shown whether or not it was shown before.
warnAlways(e, message) ==
  [e EXCEPT !.warned = @ \cup {message}, !.log = Append(@, Event("shown", 0, message))]

\* showWarningMessage is called for a message that is not in warnedMessages
warnOnce(e, message) ==
  IF message \in e.warned THEN e
  ELSE [e EXCEPT !.warned = @ \cup {message},
                 !.log = Append(@, Event("shown", 0, message))]

\* A plausible slip: the validator cache left as it is.
resetKeepingCache(e) ==
  [e EXCEPT !.warned = {}, !.info = <<>>, !.insights = <<>>,
            !.log = Append(@, Event("reset", 0, ""))]

reset(e) ==
  [e EXCEPT !.cache = <<>>, !.warned = {}, !.info = <<>>, !.insights = <<>>,
            !.log = Append(@, Event("reset", 0, ""))]

tryReadString(schema, key) ==
  IF isRecord(schema) /\ Get(schema, key).t = "string" THEN Some(Get(schema, key).s)
  ELSE NoString

\* resolveSchemaForJsonPath(documentUri, path)
resolveSchemaForJsonPath(e, uri, path) ==
  IF uri \notin DOMAIN e.info THEN None
  ELSE resolveSchemaForPath(e.info[uri].schema, path)

NoTarget ==
  [ok |-> FALSE, pointer |-> "", uri |-> "", title |-> NoString, description |-> NoString]

\* the target built from a resolution of info's schema, or none
navigationTarget(info, resolution) ==
  IF ~resolution.ok THEN NoTarget
  ELSE [ok |-> TRUE, pointer |-> resolution.pointer, uri |-> info.uri,
        title |-> tryReadString(resolution.schema, "title"),
        description |-> tryReadString(resolution.schema, "description")]

\* A plausible slip: the SchemaInfo is dropped when the path leads nowhere.
resolveNavigationTargetDropping(e, uri, path) ==
  LET Answer(target) ==
        [e |-> IF target.ok THEN e ELSE [e EXCEPT !.info = Remove(@, uri)],
         target |-> target]
  IN IF uri \notin DOMAIN e.info THEN [e |-> e, target |-> NoTarget]
     ELSE Answer(navigationTarget(e.info[uri],
                                  resolveSchemaForPath(e.info[uri].schema, path)))

\* resolveNavigationTarget(documentUri, path): the fields of the validator
\* after the call and the target returned.  offset and length are read from
\* the pointer index, a function of schemaText, and are left out.
resolveNavigationTarget(e, uri, path) ==
  IF uri \notin DOMAIN e.info THEN [e |-> e, target |-> NoTarget]
  ELSE [e |-> e,
        target |-> navigationTarget(e.info[uri],
                                    resolveSchemaForPath(e.info[uri].schema, path))]

\* A plausible slip: an entry under the key is a hit whatever its fingerprint.
getValidatorKeyOnly(e, key, payload) ==
  LET Seen(e1, validator) ==
        [e1 EXCEPT !.last =
           [called |-> TRUE, key |-> key, fingerprint |-> payload.fingerprint,
            schema |-> payload.schema, before |-> e.cache, after |-> e1.cache,
            compilesBefore |-> e.compiles, compilesAfter |-> e1.compiles,
            returned |-> validator]]
  IN IF key \in DOMAIN e.cache
     THEN [e |-> Seen(e, e.cache[key].validator), validator |-> e.cache[key].validator]
     ELSE IF AjvCompiles(payload.schema)
     THEN LET validator == [id |-> e.compiles + 1, schema |-> payload.schema]
              e1 == [e EXCEPT !.compiles = @ + 1,
                              !.cache = Put(@, key, [fingerprint |-> payload.fingerprint,
                                                     validator |-> validator])]
          IN [e |-> Seen(e1, validator), validator |-> validator]
     ELSE LET e1 == warnOnce([e EXCEPT !.compiles = @ + 1, !.cache = Remove(@, key)],
                             "Invalid schema at " \o key \o ": schema is invalid")
          IN [e |-> Seen(e1, NoValidator), validator |-> NoValidator]

\* A validator is the ordinal of the ajv.compile call that made it and the
\* schema it was compiled from.
getValidator(e, key, payload) ==
  LET Seen(e1, validator) ==
        [e1 EXCEPT !.last =
           [called |-> TRUE, key |-> key, fingerprint |-> payload.fingerprint,
            schema |-> payload.schema, before |-> e.cache, after |-> e1.cache,
            compilesBefore |-> e.compiles, compilesAfter |-> e1.compiles,
            returned |-> validator]]
  IN IF key \in DOMAIN e.cache /\ e.cache[key].fingerprint = payload.fingerprint
     THEN [e |-> Seen(e, e.cache[key].validator), validator |-> e.cache[key].validator]
     ELSE IF AjvCompiles(payload.schema)
     THEN LET validator == [id |-> e.compiles + 1, schema |-> payload.schema]
              e1 == [e EXCEPT !.compiles = @ + 1,
                              !.cache = Put(@, key, [fingerprint |-> payload.fingerprint,
                                                     validator |-> validator])]
          IN [e |-> Seen(e1, validator), validator |-> validator]
     ELSE LET e1 == warnOnce([e EXCEPT !.compiles = @ + 1, !.cache = Remove(@, key)],
                             "Invalid schema at " \o key \o ": schema is invalid")
          IN [e |-> Seen(e1, NoValidator), validator |-> NoValidator]

\* The range of a diagnostic is that of the node at the error's path.
createDiagnostic(error) ==
  [at |-> pointerToPath(error.instancePath), message |-> formatErrorMessage(error),
   severity |-> "error", source |-> "JSON Schema"]

\* What a stretch of validate hands back: the fields of the validator, where
\* the request stands, the source it holds, the entries it has itself set
\* for the document, and the diagnostics it returns once it is done.
Returned(e, mine, diags, how) ==
  [e |-> e, pc |-> "done", source |-> NoSource, mine |-> mine, diags |-> diags,
   how |-> how]
Suspended(e, pc, source, mine) ==
  [e |-> e, pc |-> pc, source |-> source, mine |-> mine, diags |-> <<>>, how |-> ""]
Nothing == [info |-> <<>>, insights |-> <<>>]

Container(schema, text) == [schema |-> schema, fingerprint |-> text, text |-> text]

\* validate from the schema container on.  root and pointerIndex of the
\* SchemaInfo are functions of schemaText and are left out.
validateLoaded(e, document, data, source, container, mine) ==
  LET schemaUri == IF source.kind = "uri" THEN source.uri ELSE source.virtualUri
      info == [uri |-> schemaUri, schema |-> container.schema,
               schemaText |-> container.text]
      e1 == [e EXCEPT !.info = Put(@, document.uri, info)]
      mine1 == [mine EXCEPT !.info = Put(@, document.uri, info)]
      got == getValidator(e1, source.cacheKey, container)
  IN IF got.validator = NoValidator THEN Returned(got.e, mine1, <<>>, "compile failed")
     ELSE LET errors == AjvValidate(got.validator.schema, data)
              insights == buildInsightsFromErrors(errors)
              e2 == [got.e EXCEPT !.insights = Put(@, document.uri, insights)]
              mine2 == [mine1 EXCEPT !.insights = Put(@, document.uri, insights)]
          IN Returned(e2, mine2, [k \in 1..Len(errors) |-> createDiagnostic(errors[k])],
                      "validated")

\* loadSchema returns at once for an inline source and reads the uri otherwise
validateSourced(e, document, data, source, mine) ==
  IF source.kind = "inline"
  THEN validateLoaded(e, document, data, source,
                      Container(source.schema, source.text), mine)
  ELSE Suspended(e, "load", source, mine)

\* validate up to its first suspension
validateEntered(e, document, data, enabled) ==
  LET e1 == [e EXCEPT !.info = Remove(@, document.uri),
                      !.insights = Remove(@, document.uri)]
      source == resolveSchemaSourceEmbedded(document, data)
  IN IF ~enabled THEN Returned(e1, Nothing, <<>>, "disabled")
     ELSE IF source.ok THEN validateSourced(e1, document, data, source, Nothing)
     ELSE Suspended(e1, "store", NoSource, Nothing)

\* validate from the answer of the association store on
validateAssigned(e, document, data, assigned, jsonSchemas, atlasSchemas, mine) ==
  LET out == resolveSchemaSourceAssigned(document, assigned, jsonSchemas, atlasSchemas)
      e1 == IF out.warn.has THEN warnOnce(e, out.warn.s) ELSE e
  IN IF ~out.source.ok THEN Returned(e1, mine, <<>>, "no schema")
     ELSE validateSourced(e1, document, data, out.source, mine)

\* validate from the end of the read on: read is the text read, or a failure
validateRead(e, document, data, source, read, mine) ==
  LET parsed == JSONParse(read.text)
      Failed(why) == Returned(warnOnce(e, "Failed to load schema from " \o source.uri
                                                \o ": " \o why), mine, <<>>,
                             "load failed")
  IN IF ~read.ok THEN Failed("file not found")
     ELSE IF ~parsed.ok THEN Failed("Unexpected end of JSON input")
     ELSE validateLoaded(e, document, data, source,
                         Container(parsed.value, read.text), mine)

(***************************************************************************)
(* The codec as a machine: a path is encoded, then the pointer is decoded. *)
(***************************************************************************)
MaxCodecLen == 2

CodecStrings == {"a", "", "0", "12", "01", "-1", "1.5", "a/b", "m~n", "~1", "~01"}
CodecNumbers == {0, 7, 12}
CodecSegments == {Str(s) : s \in CodecStrings} \cup {Num(n) : n \in CodecNumbers}

\* pointers that joinPointer is given and did not build: the empty pointer
\* and the text of a $ref
GivenPointers == {"", "#a"}

NoJoin == [called |-> FALSE, pointer |-> "", segment |-> "", joined |-> ""]

CodecStart ==
  /\ cPath \in SeqsUpTo(CodecSegments, MaxCodecLen)
  /\ cPtr = ""
  /\ cOut = <<>>
  /\ cPc = "path"
  /\ cJoin = NoJoin

CodecIdle ==
  /\ cPath = <<>>
  /\ cPtr = ""
  /\ cOut = <<>>
  /\ cPc = "idle"
  /\ cJoin = NoJoin

Encode ==
  /\ cPc = "path"
  /\ cPtr' = joinPointer("#", cPath)
  /\ cPc' = "encoded"
  /\ UNCHANGED <<cPath, cOut, cJoin, notCodec>>

Decode ==
  /\ cPc = "encoded"
  /\ cOut' = pointerToPath(cPtr)
  /\ cPc' = "decoded"
  /\ UNCHANGED <<cPath, cPtr, cJoin, notCodec>>

\* joinPointer(pointer, segment) on the pointer built or on a given one
JoinOne ==
  /\ cPc = "encoded"
  /\ \E pointer \in {cPtr} \cup GivenPointers, segment \in CodecStrings :
       cJoin' = [called |-> TRUE, pointer |-> pointer, segment |-> segment,
                 joined |-> joinPointer(pointer, <<Str(segment)>>)]
  /\ cPc' = "joined"
  /\ UNCHANGED <<cPath, cPtr, cOut, notCodec>>

CodecNext == Encode \/ Decode \/ JoinOne

(***************************************************************************)
(* resolveSchemaForPath, one step at a time.                               *)
(***************************************************************************)
\* let state = this.dereferenceSchema(info.schema, '#', info): the call is
\* entered, its loop has not run yet.
ResolveStart ==
  /\ rRoot \in Schemas
  /\ rPath \in SeqsUpTo(PathSegments, MaxPathLen)
  /\ rPc = "deref"
  /\ rIdx = 1
  /\ rSchema = rRoot
  /\ rPointer = "#"
  /\ rVisited = {}
  /\ rResult = None
  /\ rLast = NoCall

ResolveIdle ==
  /\ rRoot = Undefined
  /\ rPath = <<>>
  /\ rPc = "idle"
  /\ rIdx = 1
  /\ rSchema = Undefined
  /\ rPointer = "#"
  /\ rVisited = {}
  /\ rResult = None
  /\ rLast = NoCall

\* One round of dereferenceSchema's while loop that does not break.
DerefFollow ==
  /\ rPc = "deref"
  /\ DerefFollows(rSchema, rVisited, rRoot)
  /\ LET ref == Get(rSchema, "$ref").s
     IN /\ rVisited' = rVisited \cup {ref}
        /\ rSchema' = getSchemaAtPointer(rRoot, ref)
        /\ rPointer' = ref
  /\ UNCHANGED <<rRoot, rPath, rPc, rIdx, rResult, rLast, notResolve>>

\* dereferenceSchema returns {currentSchema, currentPointer}; the caller
\* returns it when no segment is left and goes on to the next segment otherwise.
DerefReturn ==
  /\ rPc = "deref"
  /\ ~DerefFollows(rSchema, rVisited, rRoot)
  /\ IF rIdx > Len(rPath)
     THEN rPc' = "done" /\ rResult' = Res(rSchema, rPointer)
     ELSE rPc' = "segment" /\ UNCHANGED rResult
  /\ UNCHANGED <<rRoot, rPath, rIdx, rSchema, rPointer, rVisited, rLast, notResolve>>

\* A plausible slip: the next segment is consumed without dereferencing the
\* match of this one.
ResolveSegmentOnly ==
  /\ rPc = "segment"
  /\ LET segment == rPath[rIdx]
         next == IF segment.kind = "number"
                 THEN resolveArraySchema(rSchema, rPointer, segment.n)
                 ELSE resolvePropertySchema(rSchema, rPointer, SegmentToString(segment))
     IN /\ rLast' = [from |-> Res(rSchema, rPointer), seg |-> segment,
                     next |-> next, called |-> TRUE]
        /\ IF ~next.ok
           THEN /\ rPc' = "done"
                /\ rResult' = None
                /\ UNCHANGED <<rIdx, rSchema, rPointer, rVisited>>
           ELSE /\ rPc' = IF rIdx = Len(rPath) THEN "deref" ELSE "segment"
                /\ rSchema' = next.schema
                /\ rPointer' = next.pointer
                /\ rVisited' = {}
                /\ rIdx' = rIdx + 1
                /\ UNCHANGED rResult
  /\ UNCHANGED <<rRoot, rPath, notResolve>>

\* The body of the for loop up to the call of dereferenceSchema.
ResolveSegment ==
  /\ rPc = "segment"
  /\ LET segment == rPath[rIdx]
         next == IF segment.kind = "number"
                 THEN resolveArraySchema(rSchema, rPointer, segment.n)
                 ELSE resolvePropertySchema(rSchema, rPointer, SegmentToString(segment))
     IN /\ rLast' = [from |-> Res(rSchema, rPointer), seg |-> segment,
                     next |-> next, called |-> TRUE]
        /\ IF ~next.ok
           THEN /\ rPc' = "done"
                /\ rResult' = None
                /\ UNCHANGED <<rIdx, rSchema, rPointer, rVisited>>
           ELSE /\ rPc' = "deref"
                /\ rSchema' = next.schema
                /\ rPointer' = next.pointer
                /\ rVisited' = {}
                /\ rIdx' = rIdx + 1
                /\ UNCHANGED rResult
  /\ UNCHANGED <<rRoot, rPath, notResolve>>

ResolveNext == DerefFollow \/ DerefReturn \/ ResolveSegment

(***************************************************************************)
(* buildInsightsFromErrors over the error lists of one validator run.      *)
(***************************************************************************)
MaxErrors == 2

InstancePaths == {"", "/name", "/items/0", "/a~1b"}
AllowedValueLists ==
  {<<JStr("a"), JStr("b")>>, <<JNum(1), JBool(TRUE), JNull>>, <<JStr("q\"\\")>>, <<>>}
AjvErrors ==
  {RequiredError(p, x) : p \in InstancePaths, x \in {"name", "a b"}}
    \cup {EnumError(p, l) : p \in InstancePaths, l \in AllowedValueLists}
    \cup {TypeError(p, ty) : p \in InstancePaths, ty \in {"string", "object"}}
    \cup {AdditionalPropertiesError(p, "extra") : p \in InstancePaths}

InsightStart ==
  /\ iErrors \in SeqsUpTo(AjvErrors, MaxErrors)
  /\ iInsights = <<>>
  /\ iPc = "errors"

InsightIdle ==
  /\ iErrors = <<>>
  /\ iInsights = <<>>
  /\ iPc = "idle"

BuildInsights ==
  /\ iPc = "errors"
  /\ iInsights' = buildInsightsFromErrors(iErrors)
  /\ iPc' = "built"
  /\ UNCHANGED <<iErrors, notInsight>>

InsightNext == BuildInsights

(***************************************************************************)
(* resolveSchemaSource for one document: it runs to the await of the       *)
(* association store, and from the store's answer to its return.           *)
(***************************************************************************)
Document(uri, scheme, fsPath, folder, folderPath, relative) ==
  [uri |-> uri, scheme |-> scheme, fsPath |-> fsPath, folder |-> folder,
   folderPath |-> folderPath, relative |-> relative]

WorkspaceDocument ==
  Document("file:///ws/doc.json", "file", "/ws/doc.json", "file:///ws", "/ws", "doc.json")
OutsideDocument ==
  Document("file:///tmp/doc.json", "file", "/tmp/doc.json", "", "", "/tmp/doc.json")
UntitledDocument ==
  Document("untitled:Untitled-1", "untitled", "Untitled-1", "", "", "Untitled-1")
Documents == {WorkspaceDocument, OutsideDocument, UntitledDocument}

DocumentRoots ==
  {Undefined, JArr(<<>>), JObj(<<KV("name", JStr("n"))>>),
   JObj(<<KV("$schema", JNum(1))>>)}
    \cup {JObj(<<KV("name", JStr("n")), KV("$schema", JStr(ref))>>) :
            ref \in {"", " ", "./e.json", "https://h/e.json"}}

AssignmentFiles ==
  {<<>>, [key \in {"doc.json"} |-> "schemas/a.json"], [key \in {"doc.json"} |-> " "],
   [key \in {"other.json"} |-> "/abs/o.json"]}

JsonMapping(fileMatch, schema, url) ==
  [fileMatch |-> fileMatch, schema |-> schema, url |-> url]
InlineMapping == JsonMapping(JArr(<<JStr("*.json"), JNum(0)>>), InlineSchema, NoString)
OtherFileMapping == JsonMapping(JStr("*.yaml"), Undefined, Some("https://h/y.json"))
UrlMapping == JsonMapping(Undefined, Undefined, Some(" sub/j.json "))
BlankMapping == JsonMapping(JStr("/tmp/doc.json"), Undefined, Some(" "))
NamedInlineMapping == JsonMapping(Undefined, JBool(TRUE), Some("https://h/n.json"))
JsonSchemasSettings ==
  {<<>>, <<InlineMapping>>, <<OtherFileMapping, UrlMapping>>,
   <<BlankMapping, InlineMapping, UrlMapping>>, <<OtherFileMapping, BlankMapping>>,
   <<UrlMapping, NamedInlineMapping>>, <<NamedInlineMapping>>}

AtlasMapping(pattern, schema) == [pattern |-> pattern, schema |-> schema]
RelativeAtlasMapping == AtlasMapping(Some("*.json"), Some("atlas.json"))
AbsoluteAtlasMapping == AtlasMapping(Some("/tmp/doc.json"), Some("/abs/t.json"))
PatternlessAtlasMapping == AtlasMapping(NoString, Some("/abs/u.json"))
AtlasSchemasSettings ==
  {<<>>, <<RelativeAtlasMapping>>, <<PatternlessAtlasMapping, AbsoluteAtlasMapping>>,
   <<AbsoluteAtlasMapping, RelativeAtlasMapping>>, <<PatternlessAtlasMapping>>}

SourceStart ==
  /\ sDocument \in Documents
  /\ sRoot \in DocumentRoots
  /\ sAssignments \in AssignmentFiles
  /\ sJsonSchemas \in JsonSchemasSettings
  /\ sAtlasSchemas \in AtlasSchemasSettings
  /\ sPc = "embedded"
  /\ sSource = NoSource
  /\ sStep = ""
  /\ sWarned \in {{}, {NoSchemaWarning(sDocument)}}
  /\ sShown = 0

SourceIdle ==
  /\ sDocument = UntitledDocument
  /\ sRoot = Undefined
  /\ sAssignments = <<>>
  /\ sJsonSchemas = <<>>
  /\ sAtlasSchemas = <<>>
  /\ sPc = "idle"
  /\ sSource = NoSource
  /\ sStep = ""
  /\ sWarned = {}
  /\ sShown = 0

\* The embedded declaration gives a source, or the store is asked.
SourceEmbedded ==
  /\ sPc = "embedded"
  /\ LET source == resolveSchemaSourceEmbedded(sDocument, sRoot)
     IN IF source.ok
        THEN sPc' = "done" /\ sSource' = source /\ sStep' = "embedded"
        ELSE sPc' = "store" /\ UNCHANGED <<sSource, sStep>>
  /\ UNCHANGED <<sDocument, sRoot, sAssignments, sJsonSchemas, sAtlasSchemas, sWarned,
                 sShown, notSource>>

\* The store has answered; warnOnce shows a message it has not shown yet.
SourceAssigned ==
  /\ sPc = "store"
  /\ LET assigned == getSchemaReference(sDocument, sAssignments)
         out == resolveSchemaSourceAssigned(sDocument, assigned, sJsonSchemas,
                                            sAtlasSchemas)
     IN /\ sSource' = out.source
        /\ sStep' = out.step
        /\ IF out.warn.has /\ out.warn.s \notin sWarned
           THEN sWarned' = sWarned \cup {out.warn.s} /\ sShown' = sShown + 1
           ELSE UNCHANGED <<sWarned, sShown>>
  /\ sPc' = "done"
  /\ UNCHANGED <<sDocument, sRoot, sAssignments, sJsonSchemas, sAtlasSchemas, notSource>>

SourceNext == SourceEmbedded \/ SourceAssigned

(***************************************************************************)
(* The extension at work on one document of the workspace.  A call of      *)
(* refreshDiagnostics runs until validate suspends, at the read of the     *)
(* association store or of the schema file, and goes on when the read      *)
(* ends; nothing orders the calls in flight.  Every reference of the       *)
(* settings but one names the one schema file.                             *)
(***************************************************************************)
MaxRequests == 2

SchemaFileUri == "file:///ws/s.json"
SchemaFileTexts ==
  {JSONStringify(RequiredSchema), JSONStringify(InlineSchema),
   JSONStringify(InvalidSchema), "{\"required\":"}

Settings(enabled, embedded, assignments, jsonSchemas, atlasSchemas) ==
  [enabled |-> enabled, embedded |-> embedded, assignments |-> assignments,
   jsonSchemas |-> jsonSchemas, atlasSchemas |-> atlasSchemas]

EngineSettings ==
  {Settings(TRUE, Some("./s.json"), <<>>, <<>>, <<>>),
   Settings(TRUE, NoString, [key \in {"doc.json"} |-> "s.json"], <<>>, <<>>),
   Settings(TRUE, NoString, <<>>, <<InlineMapping>>, <<>>),
   Settings(TRUE, NoString, <<>>, <<>>, <<RelativeAtlasMapping>>),
   Settings(TRUE, NoString, <<>>, <<>>, <<>>),
   Settings(FALSE, Some("./s.json"), <<>>, <<>>, <<>>)}

\* the document's content: the $schema declaration of the settings, then
\* either nothing or a name
Contents(embedded) ==
  LET declared == IF embedded.has THEN <<KV("$schema", JStr(embedded.s))>> ELSE <<>>
  IN {JObj(declared), JObj(declared \o <<KV("name", JStr("n"))>>)}

NotNavigated == [called |-> FALSE, path |-> <<>>, target |-> NoTarget]

NoRequest == [pc |-> "idle", data |-> Undefined, source |-> NoSource, mine |-> Nothing,
              diags |-> <<>>]

EngineStart ==
  /\ settings \in EngineSettings
  /\ content \in Contents(settings.embedded)
  /\ schemaFile \in SchemaFileTexts
  /\ validatorCache = <<>>
  /\ warnedMessages = {}
  /\ schemaInfoByDocument = <<>>
  /\ schemaInsightsByDocument = <<>>
  /\ compiles = 0
  /\ lastGet = NoGet
  /\ diagnostics = <<>>
  /\ requests = [i \in 1..MaxRequests |-> NoRequest]
  /\ finished = <<>>
  /\ log = <<>>
  /\ navigated = NotNavigated

EngineIdle ==
  /\ settings = Settings(FALSE, NoString, <<>>, <<>>, <<>>)
  /\ content = Undefined
  /\ schemaFile = ""
  /\ validatorCache = <<>>
  /\ warnedMessages = {}
  /\ schemaInfoByDocument = <<>>
  /\ schemaInsightsByDocument = <<>>
  /\ compiles = 0
  /\ lastGet = NoGet
  /\ diagnostics = <<>>
  /\ requests = <<>>
  /\ finished = <<>>
  /\ log = <<>>
  /\ navigated = NotNavigated

Engine ==
  [cache |-> validatorCache, warned |-> warnedMessages, info |-> schemaInfoByDocument,
   insights |-> schemaInsightsByDocument, compiles |-> compiles, last |-> lastGet,
   log |-> log]


Started == Cardinality({i \in DOMAIN requests : requests[i].pc # "idle"})

\* vscode.workspace.fs.readFile of a schema uri
ReadFile(uri) ==
  IF uri = SchemaFileUri THEN [ok |-> TRUE, text |-> schemaFile]
  ELSE [ok |-> FALSE, text |-> ""]

\* Request i has run a stretch of validate that handed back r; when validate
\* has returned, refreshDiagnostics publishes what it returned.
Ran(i, data, r) ==
  /\ validatorCache' = r.e.cache
  /\ warnedMessages' = r.e.warned
  /\ schemaInfoByDocument' = r.e.info
  /\ schemaInsightsByDocument' = r.e.insights
  /\ compiles' = r.e.compiles
  /\ lastGet' = r.e.last
  /\ navigated' = NotNavigated
  /\ requests' = [requests EXCEPT ![i] = [pc |-> r.pc, data |-> data,
                                          source |-> r.source, mine |-> r.mine,
                                          diags |-> r.diags]]
  /\ IF r.pc = "done"
     THEN /\ diagnostics' = Put(diagnostics, WorkspaceDocument.uri, r.diags)
          /\ finished' = Append(finished, i)
          /\ log' = Append(r.e.log, Event("done", i, r.how))
     ELSE /\ log' = r.e.log
          /\ UNCHANGED <<diagnostics, finished>>

\* onDidOpenTextDocument, onDidChangeTextDocument: void refreshDiagnostics
DocumentChanged ==
  /\ Started < MaxRequests
  /\ \E data \in Contents(settings.embedded) :
       /\ content' = data
       /\ Ran(Started + 1, data,
              validateEntered(Engine, WorkspaceDocument, data, settings.enabled))
  /\ UNCHANGED <<settings, schemaFile, notEngine>>

\* onDidChangeConfiguration for a jsonAtlas setting that names no schema:
\* reset, then void refreshDiagnostics for the active editor's document
ConfigurationChanged ==
  /\ Started < MaxRequests
  /\ Ran(Started + 1, content,
         validateEntered(reset(Engine), WorkspaceDocument, content, settings.enabled))
  /\ UNCHANGED <<settings, content, schemaFile, notEngine>>

\* the association store answers request i
StoreAnswered(i) ==
  /\ requests[i].pc = "store"
  /\ Ran(i, requests[i].data,
         validateAssigned(Engine, WorkspaceDocument, requests[i].data,
                          getSchemaReference(WorkspaceDocument, settings.assignments),
                          settings.jsonSchemas, settings.atlasSchemas,
                          requests[i].mine))
  /\ UNCHANGED <<settings, content, schemaFile, notEngine>>

\* the read of the schema uri of request i ends
SchemaRead(i) ==
  /\ requests[i].pc = "load"
  /\ Ran(i, requests[i].data,
         validateRead(Engine, WorkspaceDocument, requests[i].data, requests[i].source,
                      ReadFile(requests[i].source.uri), requests[i].mine))
  /\ UNCHANGED <<settings, content, schemaFile, notEngine>>

\* somebody saves another text to the schema file
SchemaFileWritten ==
  /\ \E text \in SchemaFileTexts \ {schemaFile} : schemaFile' = text
  /\ UNCHANGED <<settings, content, validatorCache, warnedMessages,
                 schemaInfoByDocument, schemaInsightsByDocument, compiles, lastGet,
                 diagnostics, requests, finished, log, navigated, notEngine>>

NavigationPaths == {<<>>, <<Str("name")>>}

\* the user asks for the schema of the node at a path of the document
Navigate ==
  /\ \E path \in NavigationPaths :
       LET Answered(r) ==
             /\ validatorCache' = r.e.cache
             /\ warnedMessages' = r.e.warned
             /\ schemaInfoByDocument' = r.e.info
             /\ schemaInsightsByDocument' = r.e.insights
             /\ navigated' = [called |-> TRUE, path |-> path, target |-> r.target]
       IN Answered(resolveNavigationTarget(Engine, WorkspaceDocument.uri, path))
  /\ UNCHANGED <<settings, content, schemaFile, compiles, lastGet, diagnostics,
                 requests, finished, log, notEngine>>

EngineNext ==
  \/ DocumentChanged
  \/ ConfigurationChanged
  \/ \E i \in DOMAIN requests : StoreAnswered(i)
  \/ \E i \in DOMAIN requests : SchemaRead(i)
  \/ SchemaFileWritten

(***************************************************************************)
(* fetchRemoteSchema: one GET after another until the promise is settled.  *)
(***************************************************************************)
MaxRedirects == 3

\* The scheme the regular expression of Uri.parse finds: the text before
\* the first ":" when no "/", "?" or "#" comes before it.
UriScheme(text) ==
  LET colon == IndexOfFrom(text, ":", 1)
      Before(c) == IndexOfFrom(text, c, 1) \in 1..(colon - 1)
  IN IF colon <= 1 \/ Before("/") \/ Before("?") \/ Before("#") THEN ""
     ELSE SubSeq(text, 1, colon - 1)

SchemeCharacters == Alpha \cup Digits \cup {"_", "+", ".", "-"}

\* vscode.Uri.parse(value), not strict: a scheme with a character outside
\* the scheme pattern throws (and tryParseUri gives nothing), a missing
\* scheme is read as file
tryParseUri(text) ==
  LET scheme == UriScheme(text)
  IN IF \E k \in 1..Len(scheme) : CharAt(scheme, k) \notin SchemeCharacters
     THEN [ok |-> FALSE, scheme |-> "", text |-> ""]
     ELSE [ok |-> TRUE, scheme |-> IF scheme = "" THEN "file" ELSE scheme, text |-> text]

\* new URL(location, base) for a location that has no scheme of its own:
\* a location that opens an authority ("//" with either slash) whose host
\* opens a bracket and does not close it throws; any other is resolved
\* against the base and keeps its scheme
URLResolve(location, base) ==
  LET slashes == ReplaceAll(location, "\\", "/")
      authority == Len(slashes) >= 2 /\ SubSeq(slashes, 1, 2) = "//"
  IN IF authority /\ IndexOfFrom(location, "[", 1) > 0 /\ IndexOfFrom(location, "]", 1) = 0
     THEN [ok |-> FALSE, scheme |-> "", text |-> ""]
     ELSE [ok |-> TRUE, scheme |-> base.scheme, text |-> base.text \o "/" \o location]

\* the uri the redirect goes to: tryParseUri first, new URL against the
\* uri of this call when that gave nothing
Redirected(location, uri) ==
  IF tryParseUri(location).ok THEN tryParseUri(location) ELSE URLResolve(location, uri)

\* A plausible slip: one redirect more is followed.
FollowsOneMore(statusCode, location, redirectCount) ==
  /\ statusCode >= 300 /\ statusCode < 400
  /\ location.has
  /\ redirectCount <= MaxRedirects

\* statusCode >= 300 && statusCode < 400 && headers.location && redirectCount < 3
Follows(statusCode, location, redirectCount) ==
  /\ statusCode >= 300 /\ statusCode < 400
  /\ location.has
  /\ redirectCount < MaxRedirects

StatusCodes == {200, 204, 301, 302, 404, 500}

\* headers.location: none; an absolute https uri; a path (Uri.parse reads it
\* as a file uri); a text Uri.parse throws on and new URL resolves; a text
\* both throw on
Locations ==
  {NoString, Some("https://b/s.json"), Some("/t.json"), Some("a b:c"), Some("\\\\[:")}

FetchUris ==
  {[ok |-> TRUE, scheme |-> "http", text |-> "http://a/s.json"],
   [ok |-> TRUE, scheme |-> "https", text |-> "https://a/s.json"]}

NoResponse == [statusCode |-> 0, location |-> NoString]

FetchStart ==
  fetch \in {[pc |-> "get", uri |-> uri, redirectCount |-> 0, gets |-> 0,
              response |-> NoResponse, by |-> "", error |-> ""] : uri \in FetchUris}

FetchIdle ==
  fetch = [pc |-> "idle", uri |-> [ok |-> FALSE, scheme |-> "", text |-> ""],
           redirectCount |-> 0, gets |-> 0, response |-> NoResponse, by |-> "",
           error |-> ""]

\* client.get(uri.toString(), ...): the request is issued, or get throws on
\* a protocol that is not the client's and the promise is rejected
ClientGet ==
  /\ fetch.pc = "get"
  /\ IF fetch.uri.scheme \in {"http", "https"}
     THEN fetch' = [fetch EXCEPT !.pc = "waiting", !.gets = @ + 1]
     ELSE fetch' = [fetch EXCEPT !.pc = "rejected", !.by = "get",
                                 !.error = "Protocol \"" \o fetch.uri.scheme
                                             \o ":\" not supported."]
  /\ UNCHANGED notFetch

\* the callback of client.get runs on a response
Responded ==
  /\ fetch.pc = "waiting"
  /\ \E statusCode \in StatusCodes, location \in Locations :
       LET got == [fetch EXCEPT !.response =
                     [statusCode |-> statusCode, location |-> location]]
           redirected == Redirected(location.s, fetch.uri)
       IN fetch' =
            IF Follows(statusCode, location, fetch.redirectCount)
            THEN IF redirected.ok
                 THEN [got EXCEPT !.pc = "get", !.uri = redirected,
                                  !.redirectCount = @ + 1]
                 ELSE [got EXCEPT !.pc = "rejected", !.by = "response",
                                  !.error = "Invalid redirect location: " \o location.s]
            ELSE IF statusCode < 200 \/ statusCode >= 300
            THEN [got EXCEPT !.pc = "rejected", !.by = "response",
                             !.error = "HTTP " \o NatToString(statusCode)]
            ELSE [got EXCEPT !.pc = "resolved", !.by = "response"]
  /\ UNCHANGED notFetch

\* request.on('error', reject): no response comes
RequestFailed ==
  /\ fetch.pc = "waiting"
  /\ fetch' = [fetch EXCEPT !.pc = "rejected", !.by = "error",
                            !.error = "connect ECONNREFUSED"]
  /\ UNCHANGED notFetch

FetchNext == ClientGet \/ Responded \/ RequestFailed

(***************************************************************************)
(* The workspace dashboard: SchemaInsightsViewProvider.runWorkspaceScan    *)
(* and cancelWorkspaceScan (src/src/schemaInsightsView.ts) around          *)
(* WorkspaceSchemaScanner.scan (src/src/workspaceSchemaScanner.ts).        *)
(***************************************************************************)
MaxScans == 2
MaxFiles == 2

NoProgress == [has |-> FALSE, processed |-> 0, total |-> 0]
NoReport == [has |-> FALSE, by |-> 0, entries |-> <<>>]

\* state.dashboard as the provider is constructed
DashboardIdle ==
  [status |-> "idle", message |-> "Run a workspace scan to inspect schema coverage.",
   progress |-> NoProgress, report |-> NoReport]

\* what evaluateDocument makes of one document
EntryStatuses == {"pass", "fail"}

\* a call of runWorkspaceScan as it awaits findFiles.  cancelledAt is the
\* index of the document in evaluation when its token was cancelled, -1 when
\* the token is not cancelled or was cancelled outside an evaluation.
NewScan ==
  [pc |-> "finding", cancelled |-> FALSE, cancelledAt |-> -1, index |-> 0,
   entries |-> <<>>, outcome |-> "none"]

\* tokenSource.cancel()
Cancel(s) ==
  IF s.cancelled THEN s
  ELSE [s EXCEPT !.cancelled = TRUE,
                 !.cancelledAt = IF s.pc = "evaluating" THEN s.index ELSE -1]

\* A plausible slip: the token is read before the loop condition, so also
\* after the last document.
LoopHeadTokenFirst(index, total, cancelled) ==
  IF cancelled THEN "cancelled" ELSE IF index >= total THEN "report" ELSE "evaluate"

\* the head of scan's for loop: the loop ends and the report is returned
\* when no document is left, a CancellationError is thrown when the token is
\* cancelled, the document at index is evaluated otherwise
LoopHead(index, total, cancelled) ==
  IF index >= total THEN "report" ELSE IF cancelled THEN "cancelled" ELSE "evaluate"

\* runWorkspaceScan from the point where scan has settled: the rest of its
\* try block or its catch block, then its finally block
Settled(i, s, d, outcome) ==
  /\ scans' = [scans EXCEPT ![i] = [s EXCEPT !.pc = "ended", !.outcome = outcome]]
  /\ dashboard' =
       IF outcome = "report"
       THEN [d EXCEPT !.status = "ready",
                      !.report = [has |-> TRUE, by |-> i, entries |-> s.entries],
                      !.progress = NoProgress, !.message = ""]
       ELSE IF s.cancelled \/ outcome = "cancelled"
       THEN [d EXCEPT !.status = "idle", !.message = "Workspace scan cancelled.",
                      !.progress = NoProgress]
       ELSE [d EXCEPT !.status = "error",
                      !.message = "Workspace scan failed: " \o outcome,
                      !.progress = NoProgress]
  /\ scanTokenSource' = IF scanTokenSource = i THEN 0 ELSE scanTokenSource

\* scan from the head of its loop to its next await or to its end
Proceed(i, s, d) ==
  LET head == LoopHead(s.index, files, s.cancelled)
  IN IF head = "evaluate"
     THEN /\ scans' = [scans EXCEPT ![i] = [s EXCEPT !.pc = "evaluating"]]
          /\ dashboard' = d
          /\ UNCHANGED scanTokenSource
     ELSE Settled(i, s, d, head)

ScanStart ==
  /\ scans = <<>>
  /\ scanTokenSource = 0
  /\ dashboard = DashboardIdle
  /\ files \in 0..MaxFiles
  /\ workspaceOpen \in BOOLEAN

ScanIdle ==
  /\ scans = <<>>
  /\ scanTokenSource = 0
  /\ dashboard = DashboardIdle
  /\ files = 0
  /\ workspaceOpen = FALSE

\* runWorkspaceScan up to its await of scanner.scan, and scan up to its
\* await of findFiles
RunWorkspaceScan ==
  /\ Len(scans) < MaxScans
  /\ IF ~workspaceOpen
     THEN /\ dashboard' =
               [dashboard EXCEPT !.status = "error",
                                 !.message = "Open a workspace folder to scan JSON files."]
          /\ UNCHANGED <<scans, scanTokenSource>>
     ELSE /\ scans' =
               Append(IF scanTokenSource = 0 THEN scans
                      ELSE [scans EXCEPT ![scanTokenSource] = Cancel(@)],
                      NewScan)
          /\ scanTokenSource' = Len(scans) + 1
          /\ dashboard' =
               [dashboard EXCEPT !.status = "scanning",
                                 !.message = "Scanning workspace JSON files",
                                 !.progress = NoProgress]
  /\ UNCHANGED <<files, workspaceOpen, notScan>>

\* the dashboardCancel message
CancelWorkspaceScan ==
  /\ scans' = IF scanTokenSource = 0 THEN scans
              ELSE [scans EXCEPT ![scanTokenSource] = Cancel(@)]
  /\ UNCHANGED <<scanTokenSource, dashboard, files, workspaceOpen, notScan>>

\* findFiles answers: scan returns the empty report when there is no file
\* and enters its loop otherwise
FilesFound(i) ==
  /\ scans[i].pc = "finding"
  /\ IF files = 0
     THEN Settled(i, scans[i], dashboard, "report")
     ELSE Proceed(i, scans[i], dashboard)
  /\ UNCHANGED <<files, workspaceOpen, notScan>>

\* findFiles rejects
FindFailed(i) ==
  /\ scans[i].pc = "finding"
  /\ Settled(i, scans[i], dashboard, "findFiles failed")
  /\ UNCHANGED <<files, workspaceOpen, notScan>>

\* evaluateDocument answers: the entry is pushed, onProgress is called and
\* the loop goes round
Evaluated(i) ==
  /\ scans[i].pc = "evaluating"
  /\ \E status \in EntryStatuses :
       Proceed(i,
               [scans[i] EXCEPT !.entries = Append(@, [doc |-> scans[i].index,
                                                       status |-> status]),
                                !.index = @ + 1],
               [dashboard EXCEPT !.progress = [has |-> TRUE,
                                               processed |-> scans[i].index + 1,
                                               total |-> files],
                                 !.status = "scanning"])
  /\ UNCHANGED <<files, workspaceOpen, notScan>>

ScanNext ==
  \/ RunWorkspaceScan
  \/ CancelWorkspaceScan
  \/ \E i \in DOMAIN scans : FilesFound(i)
  \/ \E i \in DOMAIN scans : FindFailed(i)
  \/ \E i \in DOMAIN scans : Evaluated(i)

(***************************************************************************)
(* SchemaAssociationStore (src/src/schemaAssociations.ts) for the          *)
(* documents of one workspace folder.  A Record<string, string> is a       *)
(* function from keys to references; the file holds the record that was    *)
(* stringified when writeFile was called.                                  *)
(***************************************************************************)
MaxCalls == 2

SiblingDocument ==
  Document("file:///ws/other.json", "file", "/ws/other.json", "file:///ws", "/ws",
           "other.json")

StoreDocuments == {WorkspaceDocument, SiblingDocument}
StoreReferences == {"schemas/new.json"}
StoreOperations == {"get", "set", "clear"}

NoFile == [exists |-> FALSE, data |-> <<>>]
FileOf(data) == [exists |-> TRUE, data |-> data]
AssignmentsFiles == {NoFile, FileOf([key \in {"doc.json"} |-> "schemas/old.json"])}

\* what getSchemaReference answers for each document when it is called with
\* no other call in progress and the file can be read
Answers(objects, entry, file) ==
  [document \in StoreDocuments |->
     getSchemaReference(document, IF entry # 0 THEN objects[entry] ELSE file.data)]

Running(call) == call.pc \in {"reading", "mkdir", "writing"}

\* a call as it is entered
NewCall(op, document, reference) ==
  [op |-> op, document |-> document, reference |-> reference, pc |-> "entered",
   data |-> 0, text |-> <<>>, result |-> NoString, error |-> "", warned |-> FALSE,
   before |-> Answers(heap, cache, assignmentsFile),
   during |-> {k \in DOMAIN calls : Running(calls[k])}]

\* the call from the point where readAssignments has returned the object id
\* up to its next await: the call and the objects afterwards
afterRead(call, objects, id) ==
  LET key == buildKey(call.document)
  IN CASE call.op = "get" ->
            [call |-> [call EXCEPT !.pc = "resolved", !.data = id,
                                   !.result = getSchemaReference(call.document,
                                                                 objects[id])],
             heap |-> objects]
       [] call.op = "set" ->
            [call |-> [call EXCEPT !.pc = "mkdir", !.data = id],
             heap |-> [objects EXCEPT ![id] = Put(@, key, call.reference)]]
       [] OTHER ->
            IF key \in DOMAIN objects[id]
            THEN [call |-> [call EXCEPT !.pc = "mkdir", !.data = id],
                  heap |-> [objects EXCEPT ![id] = Remove(@, key)]]
            ELSE [call |-> [call EXCEPT !.pc = "resolved", !.data = id],
                  heap |-> objects]

StoreStart ==
  /\ heap = <<>>
  /\ cache = 0
  /\ assignmentsFile \in AssignmentsFiles
  /\ calls = <<>>

StoreIdle ==
  /\ heap = <<>>
  /\ cache = 0
  /\ assignmentsFile = NoFile
  /\ calls = <<>>

\* getSchemaReference, setSchemaReference or clearSchemaReference is called:
\* with a cache entry the call runs on to its first await of the file
\* system, without one it awaits readFile
StoreCalled ==
  /\ Len(calls) < MaxCalls
  /\ \E op \in StoreOperations, document \in StoreDocuments,
        reference \in StoreReferences :
       LET call == NewCall(op, document, IF op = "set" THEN reference ELSE "")
       IN IF cache = 0
          THEN /\ calls' = Append(calls, [call EXCEPT !.pc = "reading"])
               /\ UNCHANGED heap
          ELSE LET next == afterRead(call, heap, cache)
               IN /\ calls' = Append(calls, next.call)
                  /\ heap' = next.heap
  /\ UNCHANGED <<cache, assignmentsFile, notStore>>

\* readFile of call i settles: the record parsed, or the empty record when
\* the file is not there or cannot be read, is cached and returned
FileRead(i) ==
  /\ calls[i].pc = "reading"
  /\ \E readable \in BOOLEAN :
       LET data == IF readable /\ assignmentsFile.exists THEN assignmentsFile.data
                   ELSE <<>>
           id == Len(heap) + 1
           next == afterRead([calls[i] EXCEPT !.warned = ~readable],
                             Append(heap, data), id)
       IN /\ cache' = id
          /\ heap' = next.heap
          /\ calls' = [calls EXCEPT ![i] = next.call]
  /\ UNCHANGED <<assignmentsFile, notStore>>

\* createDirectory of call i settles: the record is stringified as it is
\* now and writeFile is called, or the call rejects
DirectoryCreated(i) ==
  /\ calls[i].pc = "mkdir"
  /\ \E created \in BOOLEAN :
       calls' = [calls EXCEPT ![i] =
                   IF created
                   THEN [@ EXCEPT !.pc = "writing", !.text = heap[calls[i].data]]
                   ELSE [@ EXCEPT !.pc = "rejected", !.error = "createDirectory"]]
  /\ UNCHANGED <<heap, cache, assignmentsFile, notStore>>

\* writeFile of call i settles: the file holds the text and the object is
\* cached, or the call rejects
FileWritten(i) ==
  /\ calls[i].pc = "writing"
  /\ \E written \in BOOLEAN :
       IF written
       THEN /\ assignmentsFile' = FileOf(calls[i].text)
            /\ cache' = calls[i].data
            /\ calls' = [calls EXCEPT ![i].pc = "resolved"]
       ELSE /\ calls' = [calls EXCEPT ![i].pc = "rejected", ![i].error = "writeFile"]
            /\ UNCHANGED <<assignmentsFile, cache>>
  /\ UNCHANGED <<heap, notStore>>

StoreNext ==
  \/ StoreCalled
  \/ \E i \in DOMAIN calls : FileRead(i)
  \/ \E i \in DOMAIN calls : DirectoryCreated(i)
  \/ \E i \in DOMAIN calls : FileWritten(i)

(***************************************************************************)
(* Specifications                                                          *)
(***************************************************************************)
CodecInit == CodecStart /\ ResolveIdle /\ InsightIdle /\ SourceIdle /\ EngineIdle /\ FetchIdle
  /\ ScanIdle /\ StoreIdle
SpecCodec == CodecInit /\ [][CodecNext]_vars

ResolveInit == ResolveStart /\ CodecIdle /\ InsightIdle /\ SourceIdle /\ EngineIdle /\ FetchIdle
  /\ ScanIdle /\ StoreIdle
SpecResolve == ResolveInit /\ [][ResolveNext]_vars

InsightInit == InsightStart /\ CodecIdle /\ ResolveIdle /\ SourceIdle /\ EngineIdle /\ FetchIdle
  /\ ScanIdle /\ StoreIdle
SpecInsights == InsightInit /\ [][InsightNext]_vars

SourceInit == SourceStart /\ CodecIdle /\ ResolveIdle /\ InsightIdle /\ EngineIdle /\ FetchIdle
  /\ ScanIdle /\ StoreIdle
SpecSource == SourceInit /\ [][SourceNext]_vars

EngineInit == EngineStart /\ CodecIdle /\ ResolveIdle /\ InsightIdle /\ SourceIdle /\ FetchIdle
  /\ ScanIdle /\ StoreIdle
SpecEngine == EngineInit /\ [][EngineNext]_vars

\* the validator at work with the navigation command among its callers, on
\* the settings that declare the schema in the document or map it inline;
\* the schema file keeps the text it starts with
NavigateStart ==
  /\ EngineStart
  /\ settings.enabled
  /\ settings.assignments = <<>>
  /\ settings.atlasSchemas = <<>>
  /\ (settings.embedded.has \/ settings.jsonSchemas # <<>>)

NavigateNext ==
  \/ DocumentChanged
  \/ ConfigurationChanged
  \/ \E i \in DOMAIN requests : StoreAnswered(i)
  \/ \E i \in DOMAIN requests : SchemaRead(i)
  \/ Navigate
NavigateInit ==
  NavigateStart /\ CodecIdle /\ ResolveIdle /\ InsightIdle /\ SourceIdle /\ FetchIdle
  /\ ScanIdle /\ StoreIdle
SpecNavigate == NavigateInit /\ [][NavigateNext]_vars

FetchInit ==
  FetchStart /\ CodecIdle /\ ResolveIdle /\ InsightIdle /\ SourceIdle /\ EngineIdle
  /\ ScanIdle /\ StoreIdle
SpecFetch == FetchInit /\ [][FetchNext]_vars

ScanInit ==
  ScanStart /\ CodecIdle /\ ResolveIdle /\ InsightIdle /\ SourceIdle /\ EngineIdle
  /\ FetchIdle /\ StoreIdle
SpecScan == ScanInit /\ [][ScanNext]_vars

StoreInit ==
  StoreStart /\ CodecIdle /\ ResolveIdle /\ InsightIdle /\ SourceIdle /\ EngineIdle
  /\ FetchIdle /\ ScanIdle
SpecStore == StoreInit /\ [][StoreNext]_vars

(***************************************************************************)
(* Claims                                                                  *)
(***************************************************************************)
\* The text of an integer as String() prints it: "0", or an optional "-" and
\* digits that do not start with "0".
IsIntegerText(s) ==
  \/ s = "0"
  \/ /\ Len(s) >= 1
     /\ CharAt(s, 1) \in Digits \ {"0"}
     /\ \A i \in 2..Len(s) : CharAt(s, i) \in Digits
  \/ /\ Len(s) >= 2
     /\ CharAt(s, 1) = "-"
     /\ CharAt(s, 2) \in Digits \ {"0"}
     /\ \A i \in 3..Len(s) : CharAt(s, i) \in Digits

\* C6 as stated: decoding the encoding of a path gives back the path,
\* segment for segment and kind for kind.
C6_RoundTripExact == cPc = "decoded" => cOut = cPath

\* C6 amended: decoding the encoding of a path gives back every number
\* segment, and every string segment that is not the text of an integer,
\* unchanged; a string segment that is the text of an integer ("0", "12",
\* "-1") comes back as the number with that text.
C6_RoundTrip ==
  cPc = "decoded" =>
    /\ Len(cOut) = Len(cPath)
    /\ \A i \in 1..Len(cPath) :
         IF cPath[i].kind = "string" /\ IsIntegerText(cPath[i].s)
         THEN cOut[i].kind = "number" /\ IntToString(cOut[i].n) = cPath[i].s
         ELSE cOut[i] = cPath[i]

C6_Witness ==
  /\ cPc = "decoded"
  /\ cPath = <<Str("~01"), Num(12)>>
  /\ cPtr = "#/~001/12"
  /\ cOut = cPath

(***************************************************************************)
(* What the claims about the resolver say, stated without the resolver's   *)
(* own control flow.                                                       *)
(***************************************************************************)
\* RFC 6901 escaping, character by character
RECURSIVE EscapedText(_, _)
EscapedText(s, i) ==
  IF i > Len(s) THEN ""
  ELSE (IF CharAt(s, i) = "~" THEN "~0"
        ELSE IF CharAt(s, i) = "/" THEN "~1"
        ELSE CharAt(s, i)) \o EscapedText(s, i + 1)

\* The pointer of the child reached from `pointer` through the given keys
RECURSIVE Below(_, _)
Below(pointer, keys) ==
  IF Len(keys) = 0 THEN pointer
  ELSE Below(pointer \o "/" \o EscapedText(keys[1], 1), Tail(keys))

IsSchemaValue(v) == v.t \in {"object", "boolean"}

\* The patterns of patternProperties that match the key, as positions in key order
MatchingPatterns(schema, key) ==
  LET pp == Get(schema, "patternProperties")
  IN IF pp.t # "object" THEN {}
     ELSE {i \in 1..Len(pp.kv) : ~RegExpThrows(pp.kv[i].k) /\ RegExpTest(pp.kv[i].k, key)}

Least(S) == CHOOSE i \in S : \A j \in S : i <= j

\* Which rule of the object case applies first to a property name
PropertyRule(schema, key) ==
  IF Get(schema, "properties").t = "object" /\ HasOwn(Get(schema, "properties"), key)
  THEN "properties"
  ELSE IF MatchingPatterns(schema, key) # {} THEN "patternProperties"
  ELSE IF IsSchemaValue(Get(schema, "additionalProperties")) THEN "additionalProperties"
  ELSE IF IsSchemaValue(Get(schema, "unevaluatedProperties")) THEN "unevaluatedProperties"
  ELSE "composite"

\* Which rule of the array case applies first to an index
ArrayRule(schema, index) ==
  IF Get(schema, "prefixItems").t = "array" /\ index < Len(Get(schema, "prefixItems").el)
  THEN "prefixItems"
  ELSE IF Get(schema, "items").t = "array" /\ index < Len(Get(schema, "items").el)
  THEN "items tuple"
  ELSE IF IsSchemaValue(Get(schema, "items")) THEN "items"
  ELSE IF IsSchemaValue(Get(schema, "contains")) THEN "contains"
  ELSE IF IsSchemaValue(Get(schema, "additionalItems")) THEN "additionalItems"
  ELSE IF IsSchemaValue(Get(schema, "unevaluatedItems")) THEN "unevaluatedItems"
  ELSE "composite"

\* The branches of one keyword's array, with their pointers, in array order
BlockBranches(schema, pointer, keyword) ==
  LET block == Get(schema, keyword)
  IN IF block.t # "array" THEN <<>>
     ELSE [i \in 1..Len(block.el) |->
             [schema |-> block.el[i],
              pointer |-> Below(pointer, <<keyword, IntToString(i - 1)>>)]]

ConditionalBranch(schema, pointer, keyword) ==
  IF IsSchemaValue(Get(schema, keyword))
  THEN <<[schema |-> Get(schema, keyword), pointer |-> Below(pointer, <<keyword>>)]>>
  ELSE <<>>

\* allOf, then anyOf, then oneOf, each in array order, then `then`, then `else`
CompositeBranches(schema, pointer) ==
  BlockBranches(schema, pointer, "allOf") \o BlockBranches(schema, pointer, "anyOf")
    \o BlockBranches(schema, pointer, "oneOf")
    \o ConditionalBranch(schema, pointer, "then")
    \o ConditionalBranch(schema, pointer, "else")

\* The resolution of the first branch that yields one, none when no branch does
FirstBranchResolution(schema, pointer, seg) ==
  LET branches == CompositeBranches(schema, pointer)
      yielding == {i \in 1..Len(branches) :
                     Resolver(branches[i].schema, branches[i].pointer, seg).ok}
  IN IF yielding = {} THEN None
     ELSE Resolver(branches[Least(yielding)].schema, branches[Least(yielding)].pointer, seg)

NoStructuralMatch(schema, seg) ==
  IF seg.kind = "number" THEN ArrayRule(schema, seg.n) = "composite"
  ELSE PropertyRule(schema, seg.s) = "composite"

\* C1: when no structural keyword of the current schema matches the segment,
\* the per-segment resolver returns what the first branch that yields a
\* resolution returns, the branches taken in the order allOf, anyOf, oneOf
\* (array order within each), then, else; it returns none when no branch yields.
C1_CompositeOrder ==
  (rLast.called /\ isRecord(rLast.from.schema)
     /\ NoStructuralMatch(rLast.from.schema, rLast.seg))
    => rLast.next = FirstBranchResolution(rLast.from.schema, rLast.from.pointer, rLast.seg)

\* "y" is declared by allOf/1 and by anyOf/0: the allOf branch wins.
C1_Witness ==
  /\ rLast.called
  /\ rLast.from.pointer = "#"
  /\ rLast.seg = Str("y")
  /\ NoStructuralMatch(rLast.from.schema, rLast.seg)
  /\ Get(rLast.from.schema, "anyOf").t = "array"
  /\ rLast.next = Res(Leaf("allOf 1 y"), "#/allOf/1/properties/y")

C3_ArrayPrecedence ==
  (rLast.called /\ rLast.seg.kind = "number" /\ isRecord(rLast.from.schema)) =>
    LET schema == rLast.from.schema
        pointer == rLast.from.pointer
        index == rLast.seg.n
        rule == ArrayRule(schema, index)
    IN rLast.next =
         CASE rule = "prefixItems" ->
                Res(Get(schema, "prefixItems").el[index + 1],
                    Below(pointer, <<"prefixItems", IntToString(index)>>))
           [] rule = "items tuple" ->
                Res(Get(schema, "items").el[index + 1],
                    Below(pointer, <<"items", IntToString(index)>>))
           [] rule = "composite" -> FirstBranchResolution(schema, pointer, rLast.seg)
           [] OTHER -> Res(Get(schema, rule), Below(pointer, <<rule>>))

\* {items: [S0, S1]} alone: index 2 is out of the tuple's range and resolves to none.
C3_Witness ==
  /\ rLast.called
  /\ rLast.from = Res(ArraySchema(0, 1, 0, 0, 0, 0), "#")
  /\ rLast.seg = Num(2)
  /\ rLast.next = None
  /\ rPc = "done"
  /\ rResult = None

\* A returned schema that still carries a reference the loop could follow
\* carries one the loop has followed already in this call.
C4_CycleLeaf ==
  (rPc = "done" /\ rResult.ok /\ isRecord(rResult.schema)
     /\ Get(rResult.schema, "$ref").t = "string"
     /\ StartsWith(Get(rResult.schema, "$ref").s, "#")
     /\ getSchemaAtPointer(rRoot, Get(rResult.schema, "$ref").s) # Undefined)
    => Get(rResult.schema, "$ref").s \in rVisited

\* The "$ref" texts that occur anywhere in a value
RECURSIVE RefsIn(_)
RefsIn(v) ==
  IF v.t = "object"
  THEN UNION {IF v.kv[i].k = "$ref" /\ v.kv[i].v.t = "string"
              THEN {v.kv[i].v.s} ELSE RefsIn(v.kv[i].v) : i \in 1..Len(v.kv)}
  ELSE IF v.t = "array" THEN UNION {RefsIn(v.el[i]) : i \in 1..Len(v.el)}
  ELSE {}

\* What is left of a call: the segments not yet consumed, then the place in
\* the loop body, then the references of the root not yet followed by the
\* running dereferenceSchema.  Each is a natural number.
SegmentsLeft == IF rPc = "done" THEN 0 ELSE Len(rPath) + 1 - rIdx
Place == CASE rPc = "deref" -> 2 [] rPc = "segment" -> 1 [] OTHER -> 0
RefsLeft == Cardinality(RefsIn(rRoot) \ rVisited)

\* A step lowers <<SegmentsLeft, Place, RefsLeft>> in the lexicographic order.
CallRankLowered ==
  /\ SegmentsLeft' >= 0
  /\ \/ SegmentsLeft' < SegmentsLeft
     \/ /\ SegmentsLeft' = SegmentsLeft
        /\ \/ Place' < Place
           \/ Place' = Place /\ RefsLeft' < RefsLeft

\* A call that has not returned can take its next step.
CallCanStep ==
  \/ rPc = "done"
  \/ rPc = "deref"
  \/ rPc = "segment" /\ rIdx \in 1..Len(rPath)

\* C4: every call of resolveSchemaForPath returns: each step of the call
\* lowers a triple of natural numbers in the
\* lexicographic order and a call that has not returned can step.  A
\* reference already followed in the same dereference call is not followed
\* again: the object carrying it is returned as the leaf.  For the root
\* {"$ref": "#/a", "a": {"$ref": "#/a"}} and the empty path the result is
\* the object {"$ref": "#/a"}.
C4_DerefTerminates ==
  /\ [][CallRankLowered /\ CallCanStep']_vars
  /\ [](C4_CycleLeaf)
  /\ []((rPc = "done" /\ rRoot = SelfCycle /\ rPath = <<>>)
          => rResult = Res(Ref("#/a"), "#/a"))

C4_Witness ==
  /\ rPc = "done"
  /\ rRoot = SelfCycle
  /\ rPath = <<>>
  /\ rVisited = {"#/a"}
  /\ rResult = Res(Ref("#/a"), "#/a")

\* C5: the pointer returned with a schema, looked up in the raw root schema
\* with getSchemaAtPointer, gives exactly that schema.
C5_PointerResolvesBack ==
  (rPc = "done" /\ rResult.ok) => getSchemaAtPointer(rRoot, rResult.pointer) = rResult.schema

\* A result behind a reference whose pointer escapes "/" and "~", then two
\* more segments, the first a property name holding "/" and "~".
C5_Witness ==
  /\ rPc = "done"
  /\ rRoot = EscapedRef
  /\ rPath = <<Num(0), Str("a/~b")>>
  /\ rResult = Res(Leaf("inner a/~b"), "#/definitions/a~1~0b/properties/a~1~0b")


(***************************************************************************)
(* C10: the insight list has one insight per raw error, in the same order, *)
(* with pointer = the error's instancePath, path = the decoded pointer,    *)
(* keyword = the error's keyword, message = "Missing required property: X" *)
(* for `required`, "Value must be one of: " and the JSON-encoded allowed   *)
(* values joined by ", " for `enum`, the validator's own message           *)
(* otherwise, severity = warning exactly for `required` and `deprecated`,  *)
(* and id = pointer::keyword::message.                                     *)
(***************************************************************************)
JoinedBy(texts, sep) ==
  IF Len(texts) = 0 THEN ""
  ELSE LET RECURSIVE Glue(_)
           Glue(k) == IF k = 1 THEN texts[1] ELSE Glue(k - 1) \o sep \o texts[k]
       IN Glue(Len(texts))

InsightMessage(error) ==
  CASE error.keyword = "required" ->
         "Missing required property: " \o error.params.kv[1].v.s
    [] error.keyword = "enum" ->
         LET allowed == error.params.kv[1].v.el
         IN "Value must be one of: "
              \o JoinedBy([k \in 1..Len(allowed) |-> JSONStringify(allowed[k])], ", ")
    [] OTHER -> error.message

C10_InsightPerError ==
  iPc = "built" =>
    /\ Len(iInsights) = Len(iErrors)
    /\ \A k \in 1..Len(iErrors) :
         LET error == iErrors[k]
             insight == iInsights[k]
         IN /\ insight.pointer = error.instancePath
            /\ insight.path = pointerToPath(error.instancePath)
            /\ insight.keyword = error.keyword
            /\ insight.message = InsightMessage(error)
            /\ insight.severity = "warning"
                 <=> error.keyword \in {"required", "deprecated"}
            /\ insight.severity \in {"warning", "error"}
            /\ insight.id = insight.pointer \o "::" \o insight.keyword
                              \o "::" \o insight.message
    /\ iErrors = <<RequiredError("", "name")>> =>
         iInsights = <<[id |-> "::required::Missing required property: name",
                        message |-> "Missing required property: name",
                        pointer |-> "", path |-> <<>>, severity |-> "warning",
                        keyword |-> "required"]>>
    /\ iErrors = <<EnumError("", <<JStr("a"), JStr("b")>>)>> =>
         iInsights[1].message = "Value must be one of: \"a\", \"b\""

C10_Witness ==
  /\ iPc = "built"
  /\ Len(iErrors) = 2
  /\ iErrors[1].keyword = "enum" /\ Len(iErrors[1].params.kv[1].v.el) = 3
  /\ iErrors[2].keyword = "required" /\ iErrors[2].instancePath = "/a~1b"
  /\ iInsights[2].path = <<Str("a/b")>>
  /\ iInsights[1].message = "Value must be one of: 1, true, null"


(***************************************************************************)
(* C9: the selected source is the first applicable one in the order        *)
(* embedded $schema declaration that resolves to a location, assignment    *)
(* from the association store, json.schemas, jsonAtlas.schemas; an         *)
(* embedded declaration that does not resolve falls through; when nothing  *)
(* applies the result is no schema and the warning has been raised, shown  *)
(* unless it was shown before.                                             *)
(***************************************************************************)
\* the reference text a step has to go on, "" when it has none
EmbeddedText ==
  IF sRoot.t = "object"
       /\ \E i \in 1..Len(sRoot.kv) : sRoot.kv[i].k = "$schema" /\ sRoot.kv[i].v.t = "string"
  THEN sRoot.kv[CHOOSE i \in 1..Len(sRoot.kv) : sRoot.kv[i].k = "$schema"].v.s
  ELSE ""

AssignedText ==
  IF sDocument.folder # "" /\ "doc.json" \in DOMAIN sAssignments
  THEN sAssignments["doc.json"] ELSE ""

Located(reference) == resolveReferenceUri(sDocument, reference)

EmbeddedApplies == Located(EmbeddedText).ok
AssignmentApplies == Located(AssignedText).ok
JsonApplies ==
  \E i \in 1..Len(sJsonSchemas) : JsonMappingSource(sDocument, sJsonSchemas[i]).ok
AtlasApplies ==
  \E i \in 1..Len(sAtlasSchemas) : AtlasMappingSource(sDocument, sAtlasSchemas[i]).ok

C9_WitnessNone ==
  /\ sPc = "done"
  /\ sDocument = UntitledDocument
  /\ EmbeddedText = "./e.json"
  /\ sJsonSchemas = <<OtherFileMapping, UrlMapping>>
  /\ sAtlasSchemas = <<PatternlessAtlasMapping, AbsoluteAtlasMapping>>
  /\ sStep = "none" /\ sShown = 1


(***************************************************************************)
(* C7: a call of getValidator returns the stored validator instance        *)
(* without compiling exactly when an entry exists under the cache key and  *)
(* its fingerprint equals the freshly loaded schema text; in every other   *)
(* case the schema is compiled again and, when that succeeds, the entry    *)
(* under the key holds the new text and the new instance.  Either way the  *)
(* validator returned is one compiled from the schema just loaded.         *)
(***************************************************************************)
CacheHit ==
  /\ lastGet.key \in DOMAIN lastGet.before
  /\ lastGet.before[lastGet.key].fingerprint = lastGet.fingerprint

C7_CacheHitRule ==
  lastGet.called =>
    /\ CacheHit =>
         /\ lastGet.returned = lastGet.before[lastGet.key].validator
         /\ lastGet.compilesAfter = lastGet.compilesBefore
         /\ lastGet.after = lastGet.before
    /\ ~CacheHit =>
         /\ lastGet.compilesAfter = lastGet.compilesBefore + 1
         /\ lastGet.returned # NoValidator =>
              /\ lastGet.key \in DOMAIN lastGet.after
              /\ lastGet.after[lastGet.key] =
                   [fingerprint |-> lastGet.fingerprint, validator |-> lastGet.returned]
              /\ \A key \in DOMAIN lastGet.before :
                   lastGet.before[key].validator.id # lastGet.returned.id
    /\ \A key \in (DOMAIN lastGet.before \cup DOMAIN lastGet.after) \ {lastGet.key} :
         /\ key \in DOMAIN lastGet.before \cap DOMAIN lastGet.after
         /\ lastGet.after[key] = lastGet.before[key]
    /\ lastGet.returned # NoValidator => lastGet.returned.schema = lastGet.schema

\* the schema text is validated against twice, unchanged: one compile, and
\* the second request is handed the instance of the first
C7_Witness ==
  /\ Len(finished) = 2
  /\ lastGet.called /\ CacheHit
  /\ compiles = 1
  /\ lastGet.returned.id = 1
  /\ lastGet.returned.schema = RequiredSchema

(***************************************************************************)
(* C8: when an earlier request for the document stays suspended while the  *)
(* request started last starts and returns, then once every request has    *)
(* returned the stored SchemaInfo, the stored insight list and the         *)
(* published diagnostics are those of the request started last.            *)
(***************************************************************************)
ReturnedAt(i) == CHOOSE k \in 1..Len(finished) : finished[k] = i

C8_StaleDiscarded ==
  \A i \in DOMAIN requests : \A j \in DOMAIN requests :
    ( /\ i < j
      /\ j = Started
      /\ \A k \in 1..Started : requests[k].pc = "done"
      /\ ReturnedAt(j) < ReturnedAt(i) )
    => /\ schemaInfoByDocument = requests[j].mine.info
       /\ schemaInsightsByDocument = requests[j].mine.insights
       /\ diagnostics = Put(<<>>, WorkspaceDocument.uri, requests[j].diags)

(***************************************************************************)
(* What the validator answers when asked about a document.                 *)
(***************************************************************************)
NoInfo == [uri |-> "", schema |-> Undefined, schemaText |-> ""]

getSchemaInfo(uri) ==
  IF uri \in DOMAIN schemaInfoByDocument THEN schemaInfoByDocument[uri] ELSE NoInfo

getSchemaInsights(uri) ==
  IF uri \in DOMAIN schemaInsightsByDocument THEN schemaInsightsByDocument[uri] ELSE <<>>

\* every request that has started has returned
Quiet == \A k \in 1..Started : requests[k].pc = "done"

\* the insight list request i produced for the document: none when it no-oped
Produced(i, uri) ==
  IF uri \in DOMAIN requests[i].mine.insights THEN requests[i].mine.insights[uri]
  ELSE <<>>

(***************************************************************************)
(* C11: once every validation pass started for the document has returned,  *)
(* getSchemaInsights answers exactly the insight list of the pass that     *)
(* returned last, the empty list when that pass produced none.             *)
(***************************************************************************)
C11_InsightsReplaced ==
  (Quiet /\ finished # <<>>) =>
    getSchemaInsights(WorkspaceDocument.uri)
      = Produced(finished[Len(finished)], WorkspaceDocument.uri)

\* the step in which a request returns, validate having ended the way named
Ends(how) ==
  /\ log' # log
  /\ log'[Len(log')].op = "done"
  /\ log'[Len(log')].text = how

\* how many times the message has been shown in the part of the log given
Shown(events, message) ==
  Cardinality({k \in 1..Len(events) : events[k].op = "shown" /\ events[k].text = message})

LoadFailure(text) == SubSeq(text, 1, 26) = "Failed to load schema from"

(***************************************************************************)
(* C12: when a pass ends because loading the selected schema failed, it    *)
(* returns no diagnostics, the document has no SchemaInfo and no insights  *)
(* afterwards, the validator cache is as it was before, and no load        *)
(* failure message has been shown more than once.                          *)
(***************************************************************************)
C12_LoadFailureNoOps ==
  [][Ends("load failed") =>
       /\ diagnostics'[WorkspaceDocument.uri] = <<>>
       /\ WorkspaceDocument.uri \notin DOMAIN schemaInfoByDocument'
       /\ WorkspaceDocument.uri \notin DOMAIN schemaInsightsByDocument'
       /\ validatorCache' = validatorCache
       /\ \A k \in 1..Len(log') :
            (log'[k].op = "shown" /\ LoadFailure(log'[k].text))
              => Shown(log', log'[k].text) = 1]_vars

\* the part of the log after the last call of reset
SinceReset(events) ==
  LET resets == {k \in 1..Len(events) : events[k].op = "reset"}
      last == IF resets = {} THEN 0 ELSE CHOOSE k \in resets : \A j \in resets : j <= k
  IN SubSeq(events, last + 1, Len(events))

(***************************************************************************)
(* C13: when a pass ends because compiling the loaded schema failed, the   *)
(* validator cache has no entry under the cache key, the warning for the   *)
(* error message has been shown once since the warned messages were last   *)
(* cleared, the pass returns no diagnostics and the document has no        *)
(* insights afterwards.                                                    *)
(***************************************************************************)
C13_CompileFailure ==
  [][Ends("compile failed") =>
       /\ lastGet'.called
       /\ lastGet'.returned = NoValidator
       /\ lastGet'.key \notin DOMAIN validatorCache'
       /\ Shown(SinceReset(log'),
                "Invalid schema at " \o lastGet'.key \o ": schema is invalid") = 1
       /\ diagnostics'[WorkspaceDocument.uri] = <<>>
       /\ WorkspaceDocument.uri \notin DOMAIN schemaInsightsByDocument']_vars

\* the places of the log where the 'could not find a schema' warning for the
\* document was shown
NoSchemaShown(document) ==
  {k \in 1..Len(log) : log[k].op = "shown" /\ log[k].text = NoSchemaWarning(document)}

\* how many passes have ended the way named since the last call of reset
EndedSinceReset(how) ==
  Cardinality({k \in 1..Len(SinceReset(log)) :
                 SinceReset(log)[k].op = "done" /\ SinceReset(log)[k].text = how})

(***************************************************************************)
(* C14 as stated: over any sequence of validation requests and calls of    *)
(* reset, the 'could not find a schema' warning for the document is shown  *)
(* at most once.                                                           *)
(***************************************************************************)
C14_WarnedOncePerDocument ==
  Cardinality(NoSchemaShown(WorkspaceDocument)) <= 1

(***************************************************************************)
(* C14, amended: between two showings of the 'could not find a schema'     *)
(* warning for the document there is a call of reset; the warning is       *)
(* shown at most once between two calls of reset, however many passes find *)
(* no schema, and a pass that finds no schema has the message in the       *)
(* warned messages.                                                        *)
(***************************************************************************)
C14_WarnedOncePerReset ==
  /\ \A j \in NoSchemaShown(WorkspaceDocument) : \A k \in NoSchemaShown(WorkspaceDocument) :
       j < k => \E r \in (j + 1)..(k - 1) : log[r].op = "reset"
  /\ EndedSinceReset("no schema") > 0 =>
       /\ NoSchemaWarning(WorkspaceDocument) \in warnedMessages
       /\ Shown(SinceReset(log), NoSchemaWarning(WorkspaceDocument)) = 1

\* two passes have found no schema since the messages were last cleared, and
\* the warning was shown for the first of them only
C14_Witness ==
  /\ EndedSinceReset("no schema") = 2
  /\ Shown(SinceReset(log), NoSchemaWarning(WorkspaceDocument)) = 1

\* the promise of the fetch was settled by the last response
SettledByResponse ==
  /\ fetch.pc \in {"resolved", "rejected"}
  /\ fetch.by = "response"

RedirectStatus(statusCode) == statusCode >= 300 /\ statusCode < 400

(***************************************************************************)
(* C15 as stated: a fetch follows at most 3 redirects and issues at most   *)
(* 4 GET requests, a 3xx response after 3 redirects fails the fetch        *)
(* without another request, and every response whose status is not 2xx     *)
(* and that is not a followed redirect fails the fetch with an error that  *)
(* carries the status code.                                                *)
(***************************************************************************)
C15_BoundedRedirects ==
  /\ fetch.redirectCount <= 3
  /\ fetch.gets <= 4
  /\ fetch.gets <= fetch.redirectCount + 1
  /\ (SettledByResponse /\ ~(fetch.response.statusCode \in 200..299)) =>
       /\ fetch.pc = "rejected"
       /\ fetch.error = "HTTP " \o NatToString(fetch.response.statusCode)

\* the last response was a redirect inside the limit whose Location neither
\* Uri.parse nor new URL could read
InvalidLocation ==
  /\ Follows(fetch.response.statusCode, fetch.response.location, fetch.redirectCount)
  /\ ~Redirected(fetch.response.location.s, fetch.uri).ok

(***************************************************************************)
(* C15, amended: at most 3 redirects are followed and at most 4 GET        *)
(* requests issued; a response that settles the fetch with a status that   *)
(* is not 2xx rejects it, with 'HTTP <status>', or with 'Invalid redirect  *)
(* location: <location>' when it is a redirect inside the limit whose      *)
(* Location cannot be read; a 3xx response after 3 redirects is rejected   *)
(* with 'HTTP <status>' and no further request.                            *)
(***************************************************************************)
C15_BoundedRedirectsOrInvalid ==
  /\ fetch.redirectCount <= 3
  /\ fetch.gets <= 4
  /\ fetch.gets <= fetch.redirectCount + 1
  /\ (SettledByResponse /\ ~(fetch.response.statusCode \in 200..299)) =>
       /\ fetch.pc = "rejected"
       /\ fetch.error =
            IF InvalidLocation
            THEN "Invalid redirect location: " \o fetch.response.location.s
            ELSE "HTTP " \o NatToString(fetch.response.statusCode)
  /\ (SettledByResponse /\ fetch.redirectCount = 3
        /\ RedirectStatus(fetch.response.statusCode)) =>
       /\ fetch.gets = 4
       /\ fetch.error = "HTTP " \o NatToString(fetch.response.statusCode)
  /\ (SettledByResponse /\ fetch.response.statusCode \in 200..299) =>
       fetch.pc = "resolved"

\* three redirects were followed and the fourth response is a redirect too
C15_Witness ==
  /\ fetch.pc = "rejected"
  /\ fetch.redirectCount = 3
  /\ fetch.gets = 4
  /\ fetch.response = [statusCode |-> 302, location |-> Some("https://b/s.json")]
  /\ fetch.error = "HTTP 302"

\* a redirect whose Location cannot be read
C15_WitnessInvalid ==
  /\ fetch.pc = "rejected"
  /\ fetch.response = [statusCode |-> 301, location |-> Some("\\\\[:")]
  /\ fetch.error = "Invalid redirect location: \\\\[:"

\* reset has been called
WasReset == \E k \in 1..Len(log) : log[k].op = "reset"

\* the passes that got as far as storing a SchemaInfo, among the events given
Stored(events) ==
  {k \in 1..Len(events) :
     events[k].op = "done" /\ events[k].text \in {"validated", "compile failed"}}

(***************************************************************************)
(* C16: from a call of reset until a pass that returns after it has got as *)
(* far as storing a SchemaInfo, no document has a SchemaInfo or an insight *)
(* list, the validator cache has no entry, and resolveNavigationTarget and *)
(* resolveSchemaForJsonPath answer nothing for every path; the first call  *)
(* of getValidator after the reset finds the cache empty and compiles.     *)
(***************************************************************************)
C16_ResetClears ==
  /\ (WasReset /\ Stored(SinceReset(log)) = {}) =>
       /\ schemaInfoByDocument = <<>>
       /\ getSchemaInfo(WorkspaceDocument.uri) = NoInfo
       /\ schemaInsightsByDocument = <<>>
       /\ getSchemaInsights(WorkspaceDocument.uri) = <<>>
       /\ validatorCache = <<>>
       /\ \A path \in NavigationPaths :
            /\ resolveNavigationTarget(Engine, WorkspaceDocument.uri, path).target
                 = NoTarget
            /\ resolveSchemaForJsonPath(Engine, WorkspaceDocument.uri, path) = None
  /\ (WasReset /\ Cardinality(Stored(SinceReset(log))) = 1) =>
       /\ lastGet.called
       /\ lastGet.before = <<>>
       /\ lastGet.compilesAfter = lastGet.compilesBefore + 1

\* a pass had validated and stored a validator, then reset was called: the
\* request started with it is still in flight
C16_Witness ==
  /\ WasReset
  /\ Stored(log) # {}
  /\ Stored(SinceReset(log)) = {}
  /\ compiles = 1
  /\ \E i \in DOMAIN requests : requests[i].pc = "load"

\* the same schema text is compiled a second time after the reset
C16_WitnessRecompiled ==
  /\ WasReset
  /\ Cardinality(Stored(log)) = 2
  /\ Cardinality(Stored(SinceReset(log))) = 1
  /\ compiles = 2
  /\ lastGet.returned # NoValidator
  /\ lastGet.returned.schema = RequiredSchema
  /\ \A k \in 1..Len(log) : log[k].op = "done" => log[k].text = "validated"

ValidatedAndUnchanged ==
  /\ settings.jsonSchemas # <<>>
  /\ \E k \in 1..Len(SinceReset(log)) :
       /\ SinceReset(log)[k].op = "done"
       /\ SinceReset(log)[k].text = "validated"

(***************************************************************************)
(* C18: once a validation of the document has stored its SchemaInfo and    *)
(* returned, getSchemaInfo answers a SchemaInfo at every later moment at   *)
(* which no reset has been called and the schema text is unchanged, also   *)
(* while a later request for the document is suspended.                    *)
(***************************************************************************)
C18_SchemaInfoPersists ==
  ValidatedAndUnchanged => getSchemaInfo(WorkspaceDocument.uri) # NoInfo

\* the per-segment resolver was called with a property name on an object
\* schema that has `additionalProperties: false`, and the name is neither a
\* key of `properties` nor matched by a pattern of `patternProperties`
UnmatchedUnderFalse ==
  /\ rLast.called
  /\ rLast.seg.kind = "string"
  /\ isRecord(rLast.from.schema)
  /\ Get(rLast.from.schema, "additionalProperties") = JBool(FALSE)
  /\ ~(isRecord(Get(rLast.from.schema, "properties"))
         /\ HasOwn(Get(rLast.from.schema, "properties"), rLast.seg.s))
  /\ ~(isRecord(Get(rLast.from.schema, "patternProperties"))
         /\ FirstMatchingPattern(ObjectKeys(Get(rLast.from.schema, "patternProperties")),
                                 rLast.seg.s, 1) # 0)

(***************************************************************************)
(* C19: for a property name that matches neither `properties` nor          *)
(* `patternProperties` of an object schema with `additionalProperties:     *)
(* false`, the resolver does not return the value false at                 *)
(* .../additionalProperties: it returns `unevaluatedProperties` when that  *)
(* is a schema and what the composite fallback gives otherwise.            *)
(***************************************************************************)
C19_FalseNotResolution ==
  UnmatchedUnderFalse =>
    /\ rLast.next # Res(JBool(FALSE),
                        joinPointer(rLast.from.pointer, <<Str("additionalProperties")>>))
    /\ rLast.next =
         IF isSchemaLike(Get(rLast.from.schema, "unevaluatedProperties"))
         THEN Res(Get(rLast.from.schema, "unevaluatedProperties"),
                  joinPointer(rLast.from.pointer, <<Str("unevaluatedProperties")>>))
         ELSE resolveFromCompositeSchemas(rLast.from.schema, rLast.from.pointer, rLast.seg)

\* the schemas in which a chain of references comes back to itself
CyclicSchemas == {SelfCycle, TwoCycle, RootRef}

(***************************************************************************)
(* C20: a segment is consumed only from a schema at which dereferenceSchema *)
(* has stopped, so that a match that is only a same-document `$ref` to an  *)
(* existing target is never what the next segment is resolved in: the next *)
(* segment is resolved in the target, and the pointer returned is rooted   *)
(* at the target.  The call as a whole returns what resolving segment by   *)
(* segment with a dereference after each gives.                            *)
(***************************************************************************)
C20_DereferencedBetweenSegments ==
  /\ rPc = "segment" => ~DerefFollows(rSchema, rVisited, rRoot)
  /\ (rLast.called /\ rRoot \notin CyclicSchemas) =>
       ~DerefFollows(rLast.from.schema, {}, rRoot)
  /\ (rLast.called /\ rLast.next.ok) =>
       SubSeq(rLast.next.pointer, 1, Len(rLast.from.pointer)) = rLast.from.pointer
  /\ rPc = "done" => rResult = resolveSchemaForPath(rRoot, rPath)
  /\ (rPc = "done" /\ rRoot = ArrayRef /\ rPath = <<Str("y"), Str("y")>>) =>
       rResult = Res(Leaf("inner y"), "#/items/1/properties/y")
  /\ (rPc = "done" /\ rRoot = RefChain /\ rPath = <<Str("y"), Str("a/~b")>>) =>
       rResult = Res(Leaf("inner a/~b"), "#/definitions/B/properties/a~1~0b")

\* properties.y is only {"$ref": "#/items/1"}; the second segment is
\* resolved in the target and the pointer starts at the target
C20_Witness ==
  /\ rPc = "done"
  /\ rRoot = ArrayRef
  /\ rPath = <<Str("y"), Str("y")>>
  /\ rLast.from = Res(Inner, "#/items/1")
  /\ rResult = Res(Leaf("inner y"), "#/items/1/properties/y")

(***************************************************************************)
(* C21: a $ref that does not start with # or whose target is not in the    *)
(* root schema ends dereferenceSchema: the call returns the object that    *)
(* carries the $ref with the pointer it had, and no reference that does    *)
(* not start with # is ever followed.                                      *)
(***************************************************************************)
External(schema) ==
  /\ isRecord(schema)
  /\ Get(schema, "$ref").t = "string"
  /\ ~StartsWith(Get(schema, "$ref").s, "#")

TargetMissing(schema, root) ==
  /\ isRecord(schema)
  /\ Get(schema, "$ref").t = "string"
  /\ StartsWith(Get(schema, "$ref").s, "#")
  /\ getSchemaAtPointer(root, Get(schema, "$ref").s) = Undefined

Unresolvable(schema, root) == External(schema) \/ TargetMissing(schema, root)

C21_UnresolvableRefIsLeaf ==
  /\ [][(rPc = "deref" /\ Unresolvable(rSchema, rRoot))
          => /\ rSchema' = rSchema
             /\ rPointer' = rPointer
             /\ rVisited' = rVisited
             /\ rPc' \in {"done", "segment"}
             /\ rPc' = "done" => rResult' = Res(rSchema, rPointer)]_vars
  /\ [](\A ref \in rVisited : StartsWith(ref, "#"))
  /\ []((rPc = "deref" /\ Unresolvable(rSchema, rRoot))
          => dereferenceFrom(rSchema, rPointer, rVisited, rRoot) = Res(rSchema, rPointer))

\* the call has returned the object that carries an external reference
C21_Witness ==
  /\ rPc = "done"
  /\ rRoot = RelativeRef
  /\ rPath = <<Str("y")>>
  /\ rResult = Res(Ref("definitions/A"), "#/properties/y")

C21_WitnessMissing ==
  /\ rPc = "done"
  /\ rRoot = MissingRef
  /\ rPath = <<Num(0)>>
  /\ rResult.ok
  /\ TargetMissing(rResult.schema, rRoot)
  /\ rResult.pointer = "#/items"

(***************************************************************************)
(* C22: a decoded segment is a number exactly when its text is a           *)
(* non-negative integer literal that String gives back ("0", "12"); every  *)
(* other segment ("-1", "01", "1.5", "") is a string.                      *)
(***************************************************************************)
IsIndexText(s) ==
  \/ s = "0"
  \/ /\ Len(s) >= 1
     /\ CharAt(s, 1) \in Digits \ {"0"}
     /\ \A i \in 2..Len(s) : CharAt(s, i) \in Digits

\* the decoded text of the i-th segment of the pointer
DecodedText(pointer, i) == UnescapeOnePass(Tail(Split(pointer, "/"))[i], 1)

C22_IndexClassification ==
  cPc = "decoded" =>
    \A i \in 1..Len(cOut) :
      IF IsIndexText(DecodedText(cPtr, i))
      THEN cOut[i].kind = "number" /\ IntToString(cOut[i].n) = DecodedText(cPtr, i)
      ELSE cOut[i] = Str(DecodedText(cPtr, i))

\* what the code does instead: the text of a negative integer is a number too
C22_IntegerClassification ==
  cPc = "decoded" =>
    \A i \in 1..Len(cOut) :
      IF IsIntegerText(DecodedText(cPtr, i))
      THEN cOut[i].kind = "number" /\ IntToString(cOut[i].n) = DecodedText(cPtr, i)
      ELSE cOut[i] = Str(DecodedText(cPtr, i))

(***************************************************************************)
(* C23: the segments decoded from joinPointer(p, s) are the segments       *)
(* decoded from p followed by s itself, for every pointer p and every      *)
(* string s: the empty string, and strings with "/" or "~", included.      *)
(***************************************************************************)
C23_JoinAppends ==
  cJoin.called =>
    pointerToSegments(cJoin.joined) = Append(pointerToSegments(cJoin.pointer), cJoin.segment)

\* the same, but for the empty segment joined to a pointer of the root
C23_JoinAppendsBelowRoot ==
  (cJoin.called /\ ~(cJoin.segment = "" /\ pointerToSegments(cJoin.pointer) = <<>>)) =>
    pointerToSegments(cJoin.joined) = Append(pointerToSegments(cJoin.pointer), cJoin.segment)

(***************************************************************************)
(* C24: a workspace scan reads its cancellation token only before it       *)
(* starts a document.  When the token is cancelled while document i is     *)
(* being evaluated, that evaluation runs to its end, no document after i   *)
(* is evaluated, and the scan ends with a CancellationError and no report. *)
(***************************************************************************)
CancelledInEvaluation(s) == s.cancelled /\ s.cancelledAt # -1

\* the evaluation in progress when the token is cancelled runs to its end
EvaluationCompletes ==
  [][\A i \in DOMAIN scans :
       (scans[i].pc = "evaluating" /\ scans[i].cancelled /\ scans'[i] # scans[i])
         => /\ Len(scans'[i].entries) = Len(scans[i].entries) + 1
            /\ scans'[i].entries[Len(scans'[i].entries)].doc = scans[i].index]_vars

\* no document after the one in evaluation at the cancellation is started
NoneAfterCancelled ==
  \A i \in DOMAIN scans :
    CancelledInEvaluation(scans[i])
      => /\ Len(scans[i].entries) <= scans[i].cancelledAt + 1
         /\ scans[i].pc = "evaluating" => scans[i].index = scans[i].cancelledAt
         /\ scans[i].pc = "ended" => Len(scans[i].entries) = scans[i].cancelledAt + 1

C24_CancelledScanThrows ==
  /\ EvaluationCompletes
  /\ []NoneAfterCancelled
  /\ [](\A i \in DOMAIN scans :
          (CancelledInEvaluation(scans[i]) /\ scans[i].pc = "ended")
            => scans[i].outcome = "cancelled")

\* C24 amended: the same, but the scan ends with a CancellationError only
\* when document i is not the last one; cancelled during the last document
\* it returns the report of all documents.
C24_CancelledScanThrowsUnlessLast ==
  /\ EvaluationCompletes
  /\ []NoneAfterCancelled
  /\ [](\A i \in DOMAIN scans :
          (CancelledInEvaluation(scans[i]) /\ scans[i].pc = "ended")
            => IF scans[i].cancelledAt = files - 1
               THEN scans[i].outcome = "report"
               ELSE scans[i].outcome = "cancelled")

\* a scan of two documents cancelled during the first has thrown after it
C24_Witness ==
  /\ files = 2
  /\ \E i \in DOMAIN scans :
       /\ scans[i].pc = "ended"
       /\ scans[i].cancelledAt = 0
       /\ scans[i].outcome = "cancelled"
       /\ Len(scans[i].entries) = 1

\* a scan of two documents cancelled during the last has returned its report
C24_WitnessLast ==
  /\ files = 2
  /\ \E i \in DOMAIN scans :
       /\ scans[i].pc = "ended"
       /\ scans[i].cancelledAt = 1
       /\ scans[i].outcome = "report"
       /\ Len(scans[i].entries) = 2

(***************************************************************************)
(* C25: in the composite fallback a branch is looked into as it is         *)
(* written, not dereferenced first: when no structural keyword matches the *)
(* segment and every branch of allOf/anyOf/oneOf/then/else is a $ref and   *)
(* nothing else, the segment resolves to none; and a resolution found in   *)
(* the fallback lies in the text of a branch, below that branch's pointer. *)
(***************************************************************************)
BareRef(schema) == isRecord(schema) /\ ObjectKeys(schema) = <<"$ref">>

\* the schema behind the branch declares the segment
DeclaredBehind(branch, seg, root) ==
  /\ DerefFollows(branch.schema, {}, root)
  /\ LET target == dereferenceSchema(branch.schema, branch.pointer, root).schema
     IN /\ isRecord(target)
        /\ IF seg.kind = "number"
           THEN IsSchemaValue(Get(target, "items"))
           ELSE isRecord(Get(target, "properties"))
                  /\ HasOwn(Get(target, "properties"), seg.s)

InFallback ==
  /\ rLast.called
  /\ isRecord(rLast.from.schema)
  /\ NoStructuralMatch(rLast.from.schema, rLast.seg)

C25_BranchesAsWritten ==
  InFallback =>
    LET branches == CompositeBranches(rLast.from.schema, rLast.from.pointer)
    IN /\ (\A i \in 1..Len(branches) : BareRef(branches[i].schema)) => ~rLast.next.ok
       /\ rLast.next.ok =>
            \E i \in 1..Len(branches) :
              /\ \/ rLast.next.pointer = branches[i].pointer
                 \/ StartsWith(rLast.next.pointer, branches[i].pointer \o "/")
              /\ getSchemaAtPointer(rRoot, rLast.next.pointer) = rLast.next.schema

\* y is declared only behind allOf/0, a $ref to #/definitions/Base: not found
C25_Witness ==
  /\ rPc = "done"
  /\ rRoot = RefBranch
  /\ rPath = <<Str("y")>>
  /\ InFallback
  /\ DeclaredBehind(CompositeBranches(rRoot, "#")[1], rLast.seg, rRoot)
  /\ rResult = None

\* an index is declared only behind else, a $ref: not found
C25_WitnessConditional ==
  /\ rPc = "done"
  /\ rRoot = RefConditional
  /\ rPath = <<Num(0)>>
  /\ InFallback
  /\ DeclaredBehind(CompositeBranches(rRoot, "#")[2], rLast.seg, rRoot)
  /\ rResult = None

(***************************************************************************)
(* C26: once the current schema is the literal true or false, every        *)
(* further segment, property or index, resolves to that boolean at the     *)
(* same pointer: the call never returns none below a boolean schema, and   *)
(* the pointer returned is the pointer of the boolean schema.              *)
(***************************************************************************)
C26_BooleanAbsorbs ==
  /\ []((rLast.called /\ rLast.from.schema.t = "boolean") => rLast.next = rLast.from)
  /\ [][(rPc \in {"deref", "segment"} /\ rSchema.t = "boolean")
          => /\ rSchema' = rSchema
             /\ rPointer' = rPointer
             /\ rPc' = "done" => rResult' = Res(rSchema, rPointer)]_vars

\* false at #/properties/a~1~0b has absorbed an index
C26_Witness ==
  /\ rPc = "done"
  /\ rRoot = BooleanLeaves
  /\ rPath = <<Str("a/~b"), Num(1)>>
  /\ rLast.from = Res(JBool(FALSE), "#/properties/a~1~0b")
  /\ rLast.seg = Num(1)
  /\ rResult = Res(JBool(FALSE), "#/properties/a~1~0b")

\* true at the root has absorbed a property and an index
C26_WitnessRoot ==
  /\ rPc = "done"
  /\ rRoot = JBool(TRUE)
  /\ rPath = <<Str("y"), Num(0)>>
  /\ rResult = Res(JBool(TRUE), "#")

(***************************************************************************)
(* C27: a validation pass that finds the document invalid returns one      *)
(* diagnostic per validator error, in the order of the insight list it     *)
(* stored, each with the message and the severity of the insight at the    *)
(* same index (a `required` error is a warning in both).                   *)
(***************************************************************************)
FoundInvalid(i) == requests[i].pc = "done" /\ requests[i].diags # <<>>

C27_DiagnosticsMirrorInsights ==
  \A i \in 1..Started :
    FoundInvalid(i) =>
      LET returned == requests[i].diags
          stored == Produced(i, WorkspaceDocument.uri)
      IN /\ Len(returned) = Len(stored)
         /\ \A k \in 1..Len(returned) :
              /\ returned[k].message = stored[k].message
              /\ returned[k].at = stored[k].path
              /\ returned[k].severity = stored[k].severity

\* what the code does: count, order, place and message agree, and every
\* diagnostic is an error whatever the severity of its insight
C27_DiagnosticsAreErrors ==
  \A i \in 1..Started :
    FoundInvalid(i) =>
      LET returned == requests[i].diags
          stored == Produced(i, WorkspaceDocument.uri)
      IN /\ Len(returned) = Len(stored)
         /\ \A k \in 1..Len(returned) :
              /\ returned[k].message = stored[k].message
              /\ returned[k].at = stored[k].path
              /\ returned[k].severity = "error"

(***************************************************************************)
(* C28: when setSchemaReference is called for two different documents of   *)
(* the folder and the two calls overlap, then once both have resolved      *)
(* getSchemaReference answers the assigned reference for both documents    *)
(* and the assignments file holds both entries.                            *)
(***************************************************************************)
Overlap(i, j) == i \in calls[j].during \/ j \in calls[i].during

Assigned(data, call) ==
  /\ buildKey(call.document) \in DOMAIN data
  /\ data[buildKey(call.document)] = call.reference

C28_NoLostAssignment ==
  \A i, j \in DOMAIN calls :
    (/\ i # j
     /\ calls[i].op = "set" /\ calls[j].op = "set"
     /\ calls[i].document # calls[j].document
     /\ Overlap(i, j)
     /\ calls[i].pc = "resolved" /\ calls[j].pc = "resolved"
     /\ \A k \in DOMAIN calls \ {i, j} : calls[k].op = "get")
      => /\ Answers(heap, cache, assignmentsFile)[calls[i].document]
              = Some(calls[i].reference)
         /\ Answers(heap, cache, assignmentsFile)[calls[j].document]
              = Some(calls[j].reference)
         /\ assignmentsFile.exists
         /\ Assigned(assignmentsFile.data, calls[i])
         /\ Assigned(assignmentsFile.data, calls[j])

(***************************************************************************)
(* C29: when the write of the assignments file fails in setSchemaReference *)
(* or clearSchemaReference and the call rejects, getSchemaReference        *)
(* answers for every document of the folder what it answered before the    *)
(* call.  Stated for a call that runs with no other call in progress.      *)
(***************************************************************************)
Alone(i) == calls[i].during = {} /\ \A j \in DOMAIN calls : i \notin calls[j].during

C29_FailedWriteLeavesState ==
  [][\A i \in DOMAIN calls :
       (/\ calls[i].pc \in {"mkdir", "writing"}
        /\ calls'[i].pc = "rejected"
        /\ Alone(i))
         => Answers(heap', cache', assignmentsFile') = calls[i].before]_vars

\* what the code keeps: a failed write leaves the file and the cache entry,
\* but not the object the entry holds
C29_FailedWriteLeavesFile ==
  [][\A i \in DOMAIN calls :
       (calls[i].pc \in {"mkdir", "writing"} /\ calls'[i].pc = "rejected")
         => assignmentsFile' = assignmentsFile /\ cache' = cache /\ heap' = heap]_vars

(***************************************************************************)
(* C30: a call of runWorkspaceScan made while an earlier scan is running   *)
(* cancels the earlier scan, and until the later scan ends the dashboard   *)
(* stays 'scanning': the end of the earlier scan, by completion or by      *)
(* cancellation, does not set the status to idle, ready or error, does not *)
(* replace the report and does not clear the later scan's token source.    *)
(***************************************************************************)
\* scan i ends in this step while a later call owns the token source
SupersededEnds(i) ==
  /\ scans[i].pc # "ended"
  /\ scans'[i].pc = "ended"
  /\ scanTokenSource \notin {0, i}

EarlierCancelled ==
  \A i, j \in DOMAIN scans : i < j => (scans[i].cancelled \/ scans[i].pc = "ended")

C30_SupersededScanIsSilent ==
  /\ []EarlierCancelled
  /\ [](scanTokenSource # 0 => dashboard.status = "scanning")
  /\ [][\A i \in DOMAIN scans :
          SupersededEnds(i)
            => /\ dashboard'.status = "scanning"
               /\ dashboard'.report = dashboard.report
               /\ scanTokenSource' = scanTokenSource]_vars

\* what the code keeps: the earlier scan is cancelled and the end of a
\* superseded scan leaves the token source of the later one alone
C30_SupersededKeepsToken ==
  /\ []EarlierCancelled
  /\ [][\A i \in DOMAIN scans :
          SupersededEnds(i) => scanTokenSource' = scanTokenSource]_vars

=============================================================================
